---- MODULE Spec2Model ----
(***************************************************************************)
(* A model of the geospatial polyhedron subsystem of react-three-map:      *)
(* the coordinate converter (coords-to-vector-3.ts, vector-3-to-coords.ts),*)
(* the polyhedral surface codec and the geometry validator                 *)
(* (polyhedral-surface.ts) and the point-containment engine                *)
(* (point-in-polyhedron, held in coordinates.tsx lines 124-460).           *)
(*                                                                         *)
(* NUMBERS.  The code computes in IEEE doubles; the model computes exactly *)
(* on integer grids, chosen so that every tolerance of the code falls      *)
(* between grid values or is compared exactly:                             *)
(*   - a geographic TICK is 0.0005 degree of longitude or latitude;        *)
(*   - the local unit LU is the ground length of one tick of latitude      *)
(*     (earthRadius * 0.0005 * pi/180, about 55.6 m); mesh positions and   *)
(*     query points are whole LUs;                                         *)
(*   - the containment engine works in SUB-units, SubDiv to the LU, so     *)
(*     that vertices that went through the geographic round trip, which    *)
(*     are no longer on the LU grid, are still represented;                *)
(*   - altitudes are millimetres above sea level.                          *)
(* A non-finite double (the NaN that an out-of-range typed-array read      *)
(* turns into) is the reserved value NaN.                                  *)
(***************************************************************************)
EXTENDS Integers, Sequences, FiniteSets, TLC

\* ------------------------------------------------------------- bounds
\* The meshes have the edge lengths 1, 3, .., 2 * MaxScale - 1 LU.
MaxScale == 2

\* ------------------------------------------------------ representation
\* Sub-units per local unit.
SubDiv == 5
\* The reserved value of a non-finite coordinate.
NaN == 0 - 1000000
\* One local unit in millimetres of altitude.
UnitMm == 55597

Abs(v) == IF v < 0 THEN 0 - v ELSE v
Sgn(v) == IF v > 0 THEN 1 ELSE IF v < 0 THEN 0 - 1 ELSE 0
Min2(a, b) == IF a <= b THEN a ELSE b
Max2(a, b) == IF a >= b THEN a ELSE b
Odd(n) == n % 2 = 1

\* Exact floor and nearest-integer division for any sign of n, d > 0.
FloorDiv(n, d) == n \div d
\* Math.round(n / d): the nearest integer, a tie going to +infinity.
MathRound(n, d) == FloorDiv(2 * n + d, 2 * d)
\* Nearest integer to n / d, a tie going away from zero (Number.toFixed).
RoundHalfAway(n, d) == IF n >= 0 THEN FloorDiv(2 * n + d, 2 * d)
                       ELSE 0 - FloorDiv(2 * (0 - n) + d, 2 * d)

\* ------------------------------------------------------------ Vector3
\* three's Vector3 on exact integers: a triple <<x, y, z>>.
VSub(a, b) == <<a[1] - b[1], a[2] - b[2], a[3] - b[3]>>
VDot(a, b) == a[1] * b[1] + a[2] * b[2] + a[3] * b[3]
VCross(a, b) == <<a[2] * b[3] - a[3] * b[2],
                  a[3] * b[1] - a[1] * b[3],
                  a[1] * b[2] - a[2] * b[1]>>
VScale(a, k) == <<a[1] * k, a[2] * k, a[3] * k>>
VFinite(a) == a[1] # NaN /\ a[2] # NaN /\ a[3] # NaN
VZero == <<0, 0, 0>>

\* A square that saturates at Cap^2, for comparisons against a small limit.
SatSq(v, cap) == IF Abs(v) >= cap THEN cap * cap ELSE v * v

\* ------------------------------------------------------ BufferGeometry
\* What the code reads of a three BufferGeometry: getAttribute("position")
\* (absent when hasPosition is FALSE), its itemSize and flat array, and
\* getIndex() (null when hasIndex is FALSE) with its array.
MakeGeometry(hasPos, size, pos, hasIdx, idx) ==
    [hasPosition |-> hasPos, itemSize |-> size, position |-> pos,
     hasIndex |-> hasIdx, index |-> idx]

\* positions[i] of a typed array, i counted from 0: a read outside the
\* array gives undefined, which every use turns into NaN.
PosAt(g, i) == IF i >= 0 /\ i < Len(g.position) THEN g.position[i + 1] ELSE NaN
\* indices[i]: a read outside the array gives undefined, NaN once multiplied.
IdxAt(g, i) == IF i >= 0 /\ i < Len(g.index) THEN g.index[i + 1] ELSE NaN
\* [positions[i], positions[i + 1], positions[i + 2]]
VertexAt(g, i) == <<PosAt(g, i), PosAt(g, i + 1), PosAt(g, i + 2)>>
\* The same with i = indices[k] * 3.
VertexOfIndex(g, k) ==
    IF IdxAt(g, k) = NaN THEN <<NaN, NaN, NaN>> ELSE VertexAt(g, IdxAt(g, k) * 3)

\* The flat array of a sequence of triples.
Flatten(ts) == [i \in 1..(3 * Len(ts)) |-> ts[((i - 1) \div 3) + 1][((i - 1) % 3) + 1]]
\* s without its element k.
RemoveAt(s, k) == [i \in 1..(Len(s) - 1) |-> IF i < k THEN s[i] ELSE s[i + 1]]
\* s without its last n elements.
DropLast(s, n) == SubSeq(s, 1, Len(s) - n)

\* Two closed surfaces, vertices shared: a tetrahedron and a box (two
\* triangles a side, as BoxGeometry builds it), on the unit grid.
ShapeVertices(shape) ==
    IF shape = "tetra"
    THEN << <<0, 0, 0>>, <<1, 0, 0>>, <<0, 1, 0>>, <<0, 0, 1>> >>
    ELSE [i \in 1..8 |-> <<(i - 1) % 2, ((i - 1) \div 2) % 2, (i - 1) \div 4>>]
ShapeFaces(shape) ==
    IF shape = "tetra"
    THEN << <<0, 2, 1>>, <<0, 1, 3>>, <<0, 3, 2>>, <<1, 2, 3>> >>
    ELSE << <<0, 4, 6>>, <<0, 6, 2>>, <<1, 3, 7>>, <<1, 7, 5>>,
            <<0, 1, 5>>, <<0, 5, 4>>, <<2, 6, 7>>, <<2, 7, 3>>,
            <<0, 2, 3>>, <<0, 3, 1>>, <<4, 5, 7>>, <<4, 7, 6>> >>
Shapes == {"tetra", "box"}

\* The shape scaled by s and moved by off, as vertex and face lists.
PlacedVertices(shape, s, off) ==
    [i \in 1..Len(ShapeVertices(shape)) |->
        <<ShapeVertices(shape)[i][1] * s + off[1],
          ShapeVertices(shape)[i][2] * s + off[2],
          ShapeVertices(shape)[i][3] * s + off[3]>>]

\* An indexed geometry from vertex and face lists, and its non-indexed
\* expansion (BufferGeometry.toNonIndexed: each index replaced by the
\* position it refers to).
IndexedGeometry(vs, fs) == MakeGeometry(TRUE, 3, Flatten(vs), TRUE, Flatten(fs))
ExpandFaces(vs, fs) ==
    [i \in 1..Len(fs) |-> <<vs[fs[i][1] + 1], vs[fs[i][2] + 1], vs[fs[i][3] + 1]>>]
NonIndexedGeometry(vs, fs) ==
    MakeGeometry(TRUE, 3,
                 Flatten([i \in 1..(3 * Len(fs)) |->
                            ExpandFaces(vs, fs)[((i - 1) \div 3) + 1][((i - 1) % 3) + 1]]),
                 FALSE, <<>>)
FormGeometry(form, vs, fs) ==
    IF form = "indexed" THEN IndexedGeometry(vs, fs) ELSE NonIndexedGeometry(vs, fs)
Forms == {"indexed", "nonIndexed"}

\* ------------------------------------------- validatePolyhedronGeometry
\* MIN_AREA_TOLERANCE, 1e-12, against a squared cross product taken in
\* metres (mesh positions): in LU^4 it is below 1, so on whole LUs
\* "areaSq <= MIN_AREA_TOLERANCE" is "areaSq <= 0".
MinAreaTolLocal == 0
\* options.tolerance in micrometres; the default is 1e-6 m.
DefaultToleranceUm == 1

\* An entry of the errors list: the message's kind and the number it
\* carries (0 when it carries none).
Err(kind, n) == [kind |-> kind, count |-> n]

\* The three triangle corners the loops hand to processTriangle: triangle
\* t (from 0) of an indexed or a non-indexed geometry.
\* A variant that reads every mesh as triangle soup.
TriangleCornersUnindexed(g, t) ==
    <<VertexAt(g, 9 * t), VertexAt(g, 9 * t + 3), VertexAt(g, 9 * t + 6)>>
TriangleCorners(g, t) ==
    IF g.hasIndex
    THEN <<VertexOfIndex(g, 3 * t), VertexOfIndex(g, 3 * t + 1), VertexOfIndex(g, 3 * t + 2)>>
    ELSE <<VertexAt(g, 9 * t), VertexAt(g, 9 * t + 3), VertexAt(g, 9 * t + 6)>>

\* b.clone().sub(a).cross(c.clone().sub(a)).lengthSq() <= tol, in the
\* units of the corners; a non-finite corner makes the square NaN and
\* the comparison false.
AreaSqAtMost(a, b, c, tol) ==
    /\ VFinite(a) /\ VFinite(b) /\ VFinite(c)
    /\ VDot(VCross(VSub(b, a), VSub(c, a)), VCross(VSub(b, a), VSub(c, a))) <= tol

\* Math.round(x * inv), inv = 1 / tolerance, x a position in LU.
KeyCoord(x, tolUm) == IF x = NaN THEN NaN ELSE MathRound(x * UnitMm * 1000, tolUm)
vertexKey(v, tolUm) == <<KeyCoord(v[1], tolUm), KeyCoord(v[2], tolUm), KeyCoord(v[3], tolUm)>>

\* vertexIdMap is the sequence of its keys in insertion order: the id of a
\* key is its place, from 0.
IdOfKey(ids, key) == CHOOSE i \in 0..(Len(ids) - 1) : ids[i + 1] = key
HasKey(ids, key) == \E i \in 1..Len(ids) : ids[i] = key
\* getVertexId: the map after the call, and the id returned.
MapAfterGet(ids, key) == IF HasKey(ids, key) THEN ids ELSE Append(ids, key)
getVertexId(ids, key) == IF HasKey(ids, key) THEN IdOfKey(ids, key) ELSE Len(ids)

\* A variant of addEdge that keys the edge by the ordered pair.
addEdgeOrdered(ec, a, b) ==
    IF <<a, b>> \in DOMAIN ec
    THEN [ec EXCEPT ![<<a, b>>] = @ + 1]
    ELSE ec @@ (<<a, b>> :> 1)

\* addEdge: edgeCounts is a function from the unordered pair, written
\* <<smaller, larger>>, to its count.
EdgeKey(a, b) == IF a < b THEN <<a, b>> ELSE <<b, a>>
addEdge(ec, a, b) ==
    IF EdgeKey(a, b) \in DOMAIN ec
    THEN [ec EXCEPT ![EdgeKey(a, b)] = @ + 1]
    ELSE ec @@ (EdgeKey(a, b) :> 1)

\* The validator's running state, and one call of processTriangle on it.
\* First a variant that reports a degenerate triangle only when none was
\* reported before.
processTriangleFirstOnly(st, tri, tolUm) ==
    IF AreaSqAtMost(tri[1], tri[2], tri[3], MinAreaTolLocal)
    THEN IF Len(st.errors) > 0 THEN st ELSE [st EXCEPT !.errors = Append(@, Err("degenerate", 0))]
    ELSE LET ids1 == MapAfterGet(st.ids, vertexKey(tri[1], tolUm))
             aId  == getVertexId(st.ids, vertexKey(tri[1], tolUm))
             ids2 == MapAfterGet(ids1, vertexKey(tri[2], tolUm))
             bId  == getVertexId(ids1, vertexKey(tri[2], tolUm))
             ids3 == MapAfterGet(ids2, vertexKey(tri[3], tolUm))
             cId  == getVertexId(ids2, vertexKey(tri[3], tolUm))
         IN [st EXCEPT !.ids = ids3,
                       !.edges = addEdge(addEdge(addEdge(@, aId, bId), bId, cId), cId, aId),
                       !.triangleCount = @ + 1]
PassStart == [errors |-> <<>>, ids |-> <<>>, edges |-> <<>>, triangleCount |-> 0]
\* A variant that goes on with a degenerate triangle after reporting it.
processTriangleNoReturn(st, tri, tolUm) ==
    LET ids1 == MapAfterGet(st.ids, vertexKey(tri[1], tolUm))
        aId  == getVertexId(st.ids, vertexKey(tri[1], tolUm))
        ids2 == MapAfterGet(ids1, vertexKey(tri[2], tolUm))
        bId  == getVertexId(ids1, vertexKey(tri[2], tolUm))
        ids3 == MapAfterGet(ids2, vertexKey(tri[3], tolUm))
        cId  == getVertexId(ids2, vertexKey(tri[3], tolUm))
    IN [st EXCEPT !.errors = IF AreaSqAtMost(tri[1], tri[2], tri[3], MinAreaTolLocal)
                             THEN Append(@, Err("degenerate", 0)) ELSE @,
                  !.ids = ids3,
                  !.edges = addEdge(addEdge(addEdge(@, aId, bId), bId, cId), cId, aId),
                  !.triangleCount = @ + 1]
processTriangle(st, tri, tolUm) ==
    IF AreaSqAtMost(tri[1], tri[2], tri[3], MinAreaTolLocal)
    THEN [st EXCEPT !.errors = Append(@, Err("degenerate", 0))]
    ELSE LET ids1 == MapAfterGet(st.ids, vertexKey(tri[1], tolUm))
             aId  == getVertexId(st.ids, vertexKey(tri[1], tolUm))
             ids2 == MapAfterGet(ids1, vertexKey(tri[2], tolUm))
             bId  == getVertexId(ids1, vertexKey(tri[2], tolUm))
             ids3 == MapAfterGet(ids2, vertexKey(tri[3], tolUm))
             cId  == getVertexId(ids2, vertexKey(tri[3], tolUm))
         IN [st EXCEPT !.ids = ids3,
                       !.edges = addEdge(addEdge(addEdge(@, aId, bId), bId, cId), cId, aId),
                       !.triangleCount = @ + 1]

\* The loop over the triangles 0 .. n-1, in order.
RECURSIVE ProcessTriangles(_, _, _, _)
ProcessTriangles(g, n, tolUm, st) ==
    IF n = 0 THEN st
    ELSE processTriangle(ProcessTriangles(g, n - 1, tolUm, st),
                         TriangleCorners(g, n - 1), tolUm)

\* The structural checks after the position attribute was found, in the
\* order the code pushes their errors.
StructuralErrors(g) ==
    (IF g.itemSize # 3 THEN <<Err("itemSize", g.itemSize)>> ELSE <<>>)
    \o (IF Len(g.position) % 3 # 0 THEN <<Err("positionLength", 0)>> ELSE <<>>)
    \o (IF ~g.hasIndex /\ Len(g.position) % 9 # 0 THEN <<Err("nonIndexedLength", 0)>> ELSE <<>>)
    \o (IF g.hasIndex /\ Len(g.index) % 3 # 0 THEN <<Err("indexLength", 0)>> ELSE <<>>)

\* index ? index.array.length / 3 : positions.length / 9
TriangleTotal(g) == IF g.hasIndex THEN Len(g.index) \div 3 ELSE Len(g.position) \div 9

\* A variant of the filter that keeps only the edges used more than twice.
NonManifoldEdgesOverused(ec) == Cardinality({k \in DOMAIN ec : ec[k] > 2})

\* Array.from(edgeCounts.values()).filter((c) => c !== 2).length
NonManifoldEdges(ec) == Cardinality({k \in DOMAIN ec : ec[k] # 2})

ValidationResult(valid, errors, tris, bad) ==
    [isValid |-> valid, errors |-> errors, triangleCount |-> tris,
     nonManifoldEdgeCount |-> bad]

\* A variant of the final return that reports every mesh as valid.
FinalResultValid(st) ==
    ValidationResult(TRUE, st.errors, st.triangleCount, NonManifoldEdges(st.edges))

\* The return at the end of the function.
FinalResult(st) ==
    LET bad  == NonManifoldEdges(st.edges)
        errs == IF bad > 0 THEN Append(st.errors, Err("nonManifold", bad)) ELSE st.errors
    IN ValidationResult(Len(errs) = 0, errs, st.triangleCount, bad)

\* A variant of the validator that goes on to the triangles after a
\* structural error.
validateWithoutEarlyReturn(g, tolUm) ==
    IF ~g.hasPosition
    THEN ValidationResult(FALSE, <<Err("position", 0)>>, 0, 0)
    ELSE FinalResult(ProcessTriangles(g, TriangleTotal(g), tolUm,
                                      [PassStart EXCEPT !.errors = StructuralErrors(g)]))

validatePolyhedronGeometry(g, tolUm) ==
    IF ~g.hasPosition
    THEN ValidationResult(FALSE, <<Err("position", 0)>>, 0, 0)
    ELSE IF Len(StructuralErrors(g)) > 0
    THEN ValidationResult(FALSE, StructuralErrors(g), 0, 0)
    ELSE FinalResult(ProcessTriangles(g, TriangleTotal(g), tolUm, PassStart))

\* -------------------------------------------------- coordinate converter
\* Coords: latitude and longitude in ticks, altitude in millimetres.
\* Two origins are modelled: one on the equator and one at 89.998 N, where
\* the Mercator scale changes by a fifth from one tick to the next,
\* so that the difference between the two directions of the conversion is
\* visible on the SUB grid.
GeoCoords(lon, lat, alt) == [longitude |-> lon, latitude |-> lat, altitude |-> alt]
PoleLatitude == 179996
EquatorOrigin == GeoCoords(0 - 256, 0, 0)
PoleOrigin == GeoCoords(0, PoleLatitude, 0)
Origins == {EquatorOrigin, PoleOrigin}

\* The latitudes an origin can have: the two of the scene origins, and the
\* parallel one tick south of the northern one, 89.9975 N, which rounds to
\* the same key of the lookup as 89.998 N.
OriginLatitudes == {0, PoleLatitude - 1, PoleLatitude}
\* 100 / Math.cos(latitude * DEG2RAD) at the origin latitudes
\* (1 / cos(89.998 deg) = 28647.89, 1 / cos(89.9975 deg) = 22918.31).
Sec100(lat) ==
    IF lat = PoleLatitude THEN 2864789 ELSE IF lat = PoleLatitude - 1 THEN 2291831 ELSE 100

\* vector3ToCoords(position, origin), position in LU:
\*   latitude  = origin.latitude + (-z / earthRadius) * RAD2DEG
\*   longitude = origin.longitude + (x / earthRadius) * RAD2DEG / cos(origin.latitude)
\*   altitude  = (origin.altitude || 0) + y
\* A NaN component of the position makes the component it feeds NaN.
vector3ToCoords(pos, origin) ==
    GeoCoords(IF pos[1] = NaN THEN NaN
              ELSE origin.longitude + RoundHalfAway(pos[1] * Sec100(origin.latitude), 100),
              IF pos[3] = NaN THEN NaN ELSE origin.latitude - pos[3],
              IF pos[2] = NaN THEN NaN ELSE origin.altitude + pos[2] * UnitMm)

\* mercatorScaleLookup: a function from the keys present, Math.round(lat *
\* 1000), to the scale stored.  A latitude on a sampling line from the
\* origin is origin.latitude + n / d ticks; two ticks make one key.
KeyOf(originLat, n, d) == MathRound(originLat * d + n, 2 * d)
\* 1 / Math.cos(lat * DEG2RAD) at origin.latitude + n / d ticks, in units
\* in which the scale at the pole origin is 28647: near 89.998 N the
\* cosine is the colatitude in radians, (4 - n / d) ticks from 89.998 N
\* and (5 - n / d) ticks from 89.9975 N; near the equator the scale is 1
\* to nine places.
ScaleAt(originLat, n, d) ==
    IF originLat >= PoleLatitude - 1
    THEN (114591 * d) \div ((PoleLatitude + 4 - originLat) * d - n)
    ELSE 1

\* Math.ceil(Math.abs(point.latitude - origin.latitude)) * 100 + 1, for a
\* difference of diff ticks (2000 ticks to the degree).
StepsFor(diff) == ((Abs(diff) + 1999) \div 2000) * 100 + 1

\* averageMercatorScale(originLat, pointLat, steps) samples the latitudes
\* originLat + latStep * i, i = 0 .. steps, latStep = diff / steps.
SampleKey(originLat, diff, steps, i) == KeyOf(originLat, diff * i, steps)
\* The latitude differences, in ticks, of the vertices and query points
\* the model converts: the meshes lie south of the origin.
Diffs == (0 - 2 * MaxScale)..1
\* For each sampling line, each key the loop meets: how many of the
\* steps + 1 samples meet it, and the first sample that does.
SampleTable ==
    [o \in OriginLatitudes, diff \in Diffs |->
        [k \in {SampleKey(o, diff, StepsFor(diff), i) : i \in 0..StepsFor(diff)} |->
            [count |-> Cardinality({i \in 0..StepsFor(diff) :
                                      SampleKey(o, diff, StepsFor(diff), i) = k}),
             first |-> CHOOSE i \in 0..StepsFor(diff) :
                          /\ SampleKey(o, diff, StepsFor(diff), i) = k
                          /\ \A j \in 0..(i - 1) :
                                SampleKey(o, diff, StepsFor(diff), j) # k]]]
\* getMercatorScale over the samples of a line: a key not yet present is
\* given the scale of the first sampled latitude that meets it; a key
\* present keeps its scale.
\* A variant in which every sampled key is stored anew.
LookupOverwritten(lookup, originLat, diff) ==
    [k \in DOMAIN SampleTable[originLat, diff] |->
        ScaleAt(originLat, diff * SampleTable[originLat, diff][k].first, StepsFor(diff))]
    @@ lookup
LookupAfter(lookup, originLat, diff) ==
    lookup @@ [k \in DOMAIN SampleTable[originLat, diff] |->
                  ScaleAt(originLat, diff * SampleTable[originLat, diff][k].first,
                          StepsFor(diff))]
\* totalScale: what the steps + 1 calls return, summed key by key.
RECURSIVE SumScale(_, _, _)
SumScale(lookup, table, keys) ==
    IF keys = {} THEN 0
    ELSE LET k == CHOOSE q \in keys : TRUE
         IN table[k].count * lookup[k] + SumScale(lookup, table, keys \ {k})

\* coordsToVector3(point, origin), given the lookup as the call finds it:
\* the vector returned, in SUB units, and the lookup as the call leaves it.
\*   x = longitudeDiff * earthRadius * cos(origin.latitude)
\*   y = (point.altitude || 0) - (origin.altitude || 0)
\*   z = -latitudeDiff * earthRadius / getMercatorScale(origin.latitude) * avgScale
\* A variant that takes the altitude of the point for the height.
ConvertedFromSeaLevel(lookup, point, origin) ==
    LET diff  == point.latitude - origin.latitude
        steps == StepsFor(diff)
        after == LookupAfter(lookup, origin.latitude, diff)
        table == SampleTable[origin.latitude, diff]
        total == SumScale(after, table, DOMAIN table)
        scale0 == after[KeyOf(origin.latitude, 0, 1)]
    IN [lookup |-> after,
        vector |->
          <<RoundHalfAway((point.longitude - origin.longitude) * 100 * SubDiv,
                          Sec100(origin.latitude)),
            RoundHalfAway(point.altitude * SubDiv, UnitMm),
            RoundHalfAway((0 - diff) * SubDiv * total, (steps + 1) * scale0)>>]
Converted(lookup, point, origin) ==
    LET diff  == point.latitude - origin.latitude
        steps == StepsFor(diff)
        after == LookupAfter(lookup, origin.latitude, diff)
        table == SampleTable[origin.latitude, diff]
        total == SumScale(after, table, DOMAIN table)
        scale0 == after[KeyOf(origin.latitude, 0, 1)]
    IN [lookup |-> after,
        vector |->
          <<RoundHalfAway((point.longitude - origin.longitude) * 100 * SubDiv,
                          Sec100(origin.latitude)),
            RoundHalfAway((point.altitude - origin.altitude) * SubDiv, UnitMm),
            RoundHalfAway((0 - diff) * SubDiv * total, (steps + 1) * scale0)>>]
coordsToVector3(lookup, point, origin) == Converted(lookup, point, origin).vector
MercatorAfter(lookup, point, origin) == Converted(lookup, point, origin).lookup

\* averageMercatorScale(originLat, pointLat, steps) as coordsToVector3
\* calls it, steps = StepsFor(diff): totalScale as the sum and the count
\* steps + 1 it is divided by, and the lookup as the call leaves it.
averageMercatorScale(lookup, originLat, diff) ==
    LET after == LookupAfter(lookup, originLat, diff)
        table == SampleTable[originLat, diff]
    IN [lookup |-> after,
        total |-> SumScale(after, table, DOMAIN table),
        samples |-> StepsFor(diff) + 1]

\* A variant that takes z for the distance to the north.
\* vector3ToCoords(position, origin) on a position in SUB units: the
\* longitude and latitude in fifths of a tick (1 / SubDiv), the altitude
\* in fifths of a millimetre.
vector3ToCoordsNorthPositive(pos, origin) ==
    GeoCoords(origin.longitude * SubDiv + RoundHalfAway(pos[1] * Sec100(origin.latitude), 100),
              origin.latitude * SubDiv + pos[3],
              origin.altitude * SubDiv + pos[2] * UnitMm)
vector3ToCoordsSub(pos, origin) ==
    GeoCoords(origin.longitude * SubDiv + RoundHalfAway(pos[1] * Sec100(origin.latitude), 100),
              origin.latitude * SubDiv - pos[3],
              origin.altitude * SubDiv + pos[2] * UnitMm)

\* A mesh position or query point in SUB units.
ToSub(pos) == IF VFinite(pos) THEN VScale(pos, SubDiv) ELSE <<NaN, NaN, NaN>>

\* ------------------------------------------------ point-in-polyhedron
\* RAY_DIRECTION, (1, 0.0001, 0.0001) normalized, times its length times
\* 10000: the tests below depend on the direction only through signs.
RayDirection == <<10000, 1, 1>>
\* (SUB unit / BOUNDARY_TOLERANCE)^2, the SUB unit being UnitMm / SubDiv
\* millimetres and the tolerance 1e-3 m.
BoundaryRatioSq == 123640000

\* num / den <= tolerance^2, num / den a squared distance in SUB units
\* and ratioSq = (SUB unit / tolerance)^2.  A zero den is the 0 / 0 of a
\* triangle with a zero-length edge or no area: NaN, never <= tolerance.
DistSqWithin(num, den, ratioSq) ==
    /\ den > 0
    /\ \/ num = 0
       \/ /\ num <= 2000000000 \div ratioSq
          /\ num * ratioSq <= den

\* triangle.closestPointToPoint(p, closestPoint) followed by
\* p.distanceTo(closestPoint) <= tolerance (three's Triangle: Ericson's
\* closest point, by Voronoi region).  Non-finite corners fail every
\* comparison and end in a NaN distance.
ClosestWithin(p, a, b, c, ratioSq) ==
    /\ VFinite(a) /\ VFinite(b) /\ VFinite(c)
    /\ LET ab == VSub(b, a)
           ac == VSub(c, a)
           bc == VSub(c, b)
           ap == VSub(p, a)
           bp == VSub(p, b)
           cp == VSub(p, c)
           d1 == VDot(ab, ap)
           d2 == VDot(ac, ap)
           d3 == VDot(ab, bp)
           d4 == VDot(ac, bp)
           d5 == VDot(ab, cp)
           d6 == VDot(ac, cp)
           vc == d1 * d4 - d3 * d2
           vb == d5 * d2 - d1 * d6
           va == d3 * d6 - d5 * d4
           n  == VCross(ab, ac)
       IN IF d1 <= 0 /\ d2 <= 0 THEN DistSqWithin(VDot(ap, ap), 1, ratioSq)
          ELSE IF d3 >= 0 /\ d4 <= d3 THEN DistSqWithin(VDot(bp, bp), 1, ratioSq)
          ELSE IF vc <= 0 /\ d1 >= 0 /\ d3 <= 0
               THEN DistSqWithin(VDot(ap, ap) * VDot(ab, ab) - d1 * d1, VDot(ab, ab), ratioSq)
          ELSE IF d6 >= 0 /\ d5 <= d6 THEN DistSqWithin(VDot(cp, cp), 1, ratioSq)
          ELSE IF vb <= 0 /\ d2 >= 0 /\ d6 <= 0
               THEN DistSqWithin(VDot(ap, ap) * VDot(ac, ac) - d2 * d2, VDot(ac, ac), ratioSq)
          ELSE IF va <= 0 /\ (d4 - d3) >= 0 /\ (d5 - d6) >= 0
               THEN DistSqWithin(VDot(bp, bp) * VDot(bc, bc) - (d4 - d3) * (d4 - d3),
                                 VDot(bc, bc), ratioSq)
          ELSE DistSqWithin(SatSq(VDot(n, ap), 1000), VDot(n, n), ratioSq)

\* A variant of the ray test that also takes the hits behind the point.
RayHitLine(o, a, b, c) ==
    /\ VFinite(a) /\ VFinite(b) /\ VFinite(c)
    /\ LET edge1  == VSub(b, a)
           edge2  == VSub(c, a)
           normal == VCross(edge1, edge2)
           DdN    == VDot(RayDirection, normal)
           sign   == Sgn(DdN)
           diff   == VSub(o, a)
           DdQxE2 == sign * VDot(RayDirection, VCross(diff, edge2))
           DdE1xQ == sign * VDot(RayDirection, VCross(edge1, diff))
       IN /\ DdN # 0
          /\ DdQxE2 >= 0
          /\ DdE1xQ >= 0
          /\ DdQxE2 + DdE1xQ <= Abs(DdN)

\* ray.intersectTriangle(a, b, c, false, target) returns a point, and
\* target.clone().sub(origin).dot(RAY_DIRECTION) > RAY_EPSILON.  The
\* distance along the ray is QdN / DdN; on the SUB grid it is 0 or above
\* 1e-4 SUB units, so "> RAY_EPSILON" (1e-12) is "QdN > 0".
RayHitAhead(o, a, b, c) ==
    /\ VFinite(a) /\ VFinite(b) /\ VFinite(c)
    /\ LET edge1  == VSub(b, a)
           edge2  == VSub(c, a)
           normal == VCross(edge1, edge2)
           DdN    == VDot(RayDirection, normal)
           sign   == Sgn(DdN)
           diff   == VSub(o, a)
           DdQxE2 == sign * VDot(RayDirection, VCross(diff, edge2))
           DdE1xQ == sign * VDot(RayDirection, VCross(edge1, diff))
           QdN    == (0 - sign) * VDot(diff, normal)
       IN /\ DdN # 0
          /\ DdQxE2 >= 0
          /\ DdE1xQ >= 0
          /\ DdQxE2 + DdE1xQ <= Abs(DdN)
          /\ QdN >= 0
          /\ QdN > 0

\* A call's outcome: a value returned or an Error thrown.
Returned(v) == [ok |-> TRUE, value |-> v]
Thrown(kind) == [ok |-> FALSE, error |-> kind]

\* Triangle t of the geometry with its corners in SUB units.
SubCorners(g, t) ==
    LET tri == TriangleCorners(g, t) IN <<ToSub(tri[1]), ToSub(tri[2]), ToSub(tri[3])>>
\* The triangles the loops of the engine visit: indices.length / 3 rounded
\* up, or positions.length / 9 rounded up (for (i = 0; i < length; i += 3)).
LoopTriangles(g) ==
    IF g.hasIndex THEN (Len(g.index) + 2) \div 3 ELSE (Len(g.position) + 8) \div 9

\* isPointOnSurface(point, geometry, tolerance), point in SUB units.
isPointOnSurface(point, g, ratioSq) ==
    IF ~g.hasPosition THEN Thrown("position")
    ELSE Returned(\E t \in 0..(LoopTriangles(g) - 1) :
                     LET tri == SubCorners(g, t)
                     IN ClosestWithin(point, tri[1], tri[2], tri[3], ratioSq))

PointResult(inside, count, boundary) ==
    [inside |-> inside, intersectionCount |-> count, onBoundary |-> boundary]

\* The number of triangles the counting loop counts.
CountHits(point, g) ==
    Cardinality({t \in 0..(LoopTriangles(g) - 1) :
                    LET tri == SubCorners(g, t)
                    IN RayHitAhead(point, tri[1], tri[2], tri[3])})

\* A variant of isPointInPolyhedron without the test of the boundary.
isPointInPolyhedronByRayOnly(point, g) ==
    IF ~g.hasPosition THEN Thrown("position")
    ELSE IF g.itemSize # 3 THEN Thrown("itemSize")
    ELSE IF ~g.hasIndex /\ Len(g.position) % 3 # 0 THEN Thrown("positionLength")
    ELSE IF g.hasIndex /\ Len(g.index) % 3 # 0 THEN Thrown("indexLength")
    ELSE Returned(PointResult(Odd(CountHits(point, g)), CountHits(point, g), FALSE))

\* isPointInPolyhedron(point, geometry), point in SUB units.
isPointInPolyhedron(point, g) ==
    IF ~g.hasPosition THEN Thrown("position")
    ELSE IF g.itemSize # 3 THEN Thrown("itemSize")
    ELSE IF ~g.hasIndex /\ Len(g.position) % 3 # 0 THEN Thrown("positionLength")
    ELSE IF g.hasIndex /\ Len(g.index) % 3 # 0 THEN Thrown("indexLength")
    ELSE IF isPointOnSurface(point, g, BoundaryRatioSq).value
    THEN Returned(PointResult(TRUE, 0, TRUE))
    ELSE LET intersectionCount == CountHits(point, g)
         IN Returned(PointResult(Odd(intersectionCount), intersectionCount, FALSE))

\* ---------------------------------------------------- polyhedral surface
GeoTriangle(v0, v1, v2) == [v0 |-> v0, v1 |-> v1, v2 |-> v2]

\* isFiniteNumber and the test of assertFiniteVertex (which throws when the
\* test fails).
isFiniteNumber(value) == value # NaN
assertFiniteVertex(v) ==
    isFiniteNumber(v.longitude) /\ isFiniteNumber(v.latitude) /\ isFiniteNumber(v.altitude)

\* toGeoVertex up to its assertion: vector3ToCoords of the tuple, the
\* altitude defaulting to 0 (the converter always sets it).
toGeoVertex(tuple, origin) == vector3ToCoords(tuple, origin)

\* The triangles the loops of extractGeoTriangles build, before the
\* assertions of toGeoVertex.
GeoCorners(g, origin) ==
    [t \in 1..LoopTriangles(g) |->
        LET tri == TriangleCorners(g, t - 1)
        IN GeoTriangle(toGeoVertex(tri[1], origin), toGeoVertex(tri[2], origin),
                       toGeoVertex(tri[3], origin))]
TriangleFinite(tri) ==
    assertFiniteVertex(tri.v0) /\ assertFiniteVertex(tri.v1) /\ assertFiniteVertex(tri.v2)

\* A variant of extractGeoTriangles without the test of itemSize.
extractWithoutItemSize(g, origin) ==
    IF ~g.hasPosition THEN Thrown("position")
    ELSE IF ~g.hasIndex /\ Len(g.position) % 3 # 0 THEN Thrown("positionLength")
    ELSE IF g.hasIndex /\ Len(g.index) % 3 # 0 THEN Thrown("indexLength")
    ELSE LET triangles == GeoCorners(g, origin)
         IN IF \E t \in 1..Len(triangles) : ~TriangleFinite(triangles[t])
            THEN Thrown("nonFinite")
            ELSE Returned(triangles)

\* extractGeoTriangles(geometry, origin): the list returned, or the Error.
extractGeoTriangles(g, origin) ==
    IF ~g.hasPosition THEN Thrown("position")
    ELSE IF g.itemSize # 3 THEN Thrown("itemSize")
    ELSE IF ~g.hasIndex /\ Len(g.position) % 3 # 0 THEN Thrown("positionLength")
    ELSE IF g.hasIndex /\ Len(g.index) % 3 # 0 THEN Thrown("indexLength")
    ELSE LET triangles == GeoCorners(g, origin)
         IN IF \E t \in 1..Len(triangles) : ~TriangleFinite(triangles[t])
            THEN Thrown("nonFinite")
            ELSE Returned(triangles)

\* Number.prototype.toFixed(precision) followed by Number(): the value
\* rounded to a multiple of 10^-precision, a tie going away from zero.
\* Longitudes and latitudes are in ticks of 1/2000 degree and altitudes in
\* millimetres, so four and three decimals reproduce them.
Pow10(p) == CASE p = 0 -> 1 [] p = 1 -> 10 [] p = 2 -> 100 [] OTHER -> 1000
DegreeQuantum(p) == IF p >= 4 THEN 1 ELSE 2000 \div Pow10(p)
MetreQuantum(p) == IF p >= 3 THEN 1 ELSE 1000 \div Pow10(p)
toFixed(v, quantum) == RoundHalfAway(v, quantum) * quantum

\* A WKT text is the sequence of its lexemes: a numeral (the number it
\* reads as, in ticks for a longitude or latitude and millimetres for an
\* altitude, and the count of its decimals), a white-space character, a
\* parenthesis, a comma, or a word, kept whole.
Lx(kind) == [kind |-> kind, value |-> 0, decimals |-> 0]
Numeral(v, d) == [kind |-> "num", value |-> v, decimals |-> d]
Space == Lx(" ")
IsSpace(l) == l.kind = " "
\* Text joined from the pieces with the separator between them:
\* Array.prototype.join.
RECURSIVE Join(_, _, _)
Join(pieces, sep, n) ==
    IF n = 0 THEN <<>>
    ELSE IF n = 1 THEN pieces[1]
    ELSE Join(pieces, sep, n - 1) \o sep \o pieces[n]

\* formatCoord: the token "lng lat alt", each numeral written by
\* toFixed(precision).
formatCoord(v, precision) ==
    <<Numeral(toFixed(v.longitude, DegreeQuantum(precision)), precision), Space,
      Numeral(toFixed(v.latitude, DegreeQuantum(precision)), precision), Space,
      Numeral(toFixed(v.altitude, MetreQuantum(precision)), precision)>>

\* A variant that does not repeat the first vertex.
FormatPolygonOpen(tri, precision) ==
    <<Lx("("), Lx("(")>> \o formatCoord(tri.v0, precision) \o <<Lx(","), Space>>
    \o formatCoord(tri.v1, precision) \o <<Lx(","), Space>>
    \o formatCoord(tri.v2, precision) \o <<Lx(")"), Lx(")")>>
\* `((${c0}, ${c1}, ${c2}, ${c0}))`
FormatPolygon(tri, precision) ==
    <<Lx("("), Lx("(")>> \o formatCoord(tri.v0, precision) \o <<Lx(","), Space>>
    \o formatCoord(tri.v1, precision) \o <<Lx(","), Space>>
    \o formatCoord(tri.v2, precision) \o <<Lx(","), Space>>
    \o formatCoord(tri.v0, precision) \o <<Lx(")"), Lx(")")>>

\* bufferGeometryToWKT(geometry, {origin, precision}):
\* `POLYHEDRALSURFACE Z (${polygons.join(", ")})`.
bufferGeometryToWKT(g, origin, precision) ==
    LET triangles == extractGeoTriangles(g, origin)
    IN IF ~triangles.ok THEN triangles
       ELSE IF Len(triangles.value) = 0 THEN Thrown("noFaces")
       ELSE LET polygons == [t \in 1..Len(triangles.value) |->
                                FormatPolygon(triangles.value[t], precision)]
            IN Returned(<<Lx("POLYHEDRALSURFACE"), Space, Lx("Z"), Space, Lx("(")>>
                        \o Join(polygons, <<Lx(","), Space>>, Len(polygons))
                        \o <<Lx(")")>>)

\* RING_CLOSURE_TOLERANCE, 1e-9 degree or metre: below one tick and below
\* one millimetre, so "<= tolerance" is equality on the grid.
RingClosureTolerance == 0
\* A variant that compares longitude and latitude only.
verticesEqualPlanar(a, b) ==
    /\ Abs(a.longitude - b.longitude) <= RingClosureTolerance
    /\ Abs(a.latitude - b.latitude) <= RingClosureTolerance
verticesEqual(a, b) ==
    /\ Abs(a.longitude - b.longitude) <= RingClosureTolerance
    /\ Abs(a.latitude - b.latitude) <= RingClosureTolerance
    /\ Abs(a.altitude - b.altitude) <= RingClosureTolerance

\* The regular expressions and string functions of the parser, on lexemes.
\* The first lexeme after place i that is no white space (past the end
\* when there is none), and the last one before place i (0 when none).
NextInk(t, i) ==
    CHOOSE j \in (i + 1)..(Len(t) + 1) :
        /\ j = Len(t) + 1 \/ ~IsSpace(t[j])
        /\ \A k \in (i + 1)..(j - 1) : IsSpace(t[k])
PrevInk(t, i) ==
    CHOOSE j \in 0..(i - 1) :
        /\ j = 0 \/ ~IsSpace(t[j])
        /\ \A k \in (j + 1)..(i - 1) : IsSpace(t[k])
\* String.prototype.trim
Trim(t) == SubSeq(t, NextInk(t, 0), PrevInk(t, Len(t) + 1))
NotSpace(l) == ~IsSpace(l)
NonEmpty(t) == Len(t) > 0
\* The k-th smallest of a set of places.
Nth(places, k) == CHOOSE p \in places : Cardinality({q \in places : q < p}) = k - 1
\* The i flag of the expressions: a word matches in any letter case.
\* A variant without the i flag.
ExactCase(kind) == kind
ToUpper(kind) ==
    CASE kind \in {"polyhedralsurface", "PolyhedralSurface"} -> "POLYHEDRALSURFACE"
      [] kind = "z" -> "Z"
      [] kind = "m" -> "M"
      [] kind \in {"empty", "Empty"} -> "EMPTY"
      [] kind = "srid=4326;" -> "SRID=4326;"
      [] OTHER -> kind
IsWord(l, word) == ToUpper(l.kind) = word

\* An error whose message quotes a coordinate token.
ThrownAt(kind, token) == [ok |-> FALSE, error |-> kind, token |-> token]

\* token.split(/\s+/).filter((p) => p.length > 0): the parts start where a
\* lexeme that is no white space follows the start or a white space.
PartStarts(token) ==
    {i \in 1..Len(token) : ~IsSpace(token[i]) /\ (i = 1 \/ IsSpace(token[i - 1]))}
\* Number(parts[k - 1]): the number of a part that is one numeral, and NaN
\* for any other part.
NumberOfPart(token, k) ==
    LET p == Nth(PartStarts(token), k)
    IN IF token[p].kind = "num" /\ (p = Len(token) \/ IsSpace(token[p + 1]))
       THEN token[p].value
       ELSE NaN

\* A variant that reads the altitude from the last part of the token.
parseVertexLastPart(token) ==
    IF Cardinality(PartStarts(token)) < 3 THEN ThrownAt("coordinateFields", token)
    ELSE LET longitude == NumberOfPart(token, 1)
             latitude  == NumberOfPart(token, 2)
             altitude  == NumberOfPart(token, Cardinality(PartStarts(token)))
         IN IF ~(isFiniteNumber(longitude) /\ isFiniteNumber(latitude)
                 /\ isFiniteNumber(altitude))
            THEN ThrownAt("coordinateNumber", token)
            ELSE Returned(GeoCoords(longitude, latitude, altitude))
\* parseVertexStrict(token): the vertex, or the Error.
parseVertexStrict(token) ==
    IF Cardinality(PartStarts(token)) < 3 THEN ThrownAt("coordinateFields", token)
    ELSE LET longitude == NumberOfPart(token, 1)
             latitude  == NumberOfPart(token, 2)
             altitude  == NumberOfPart(token, 3)
         IN IF ~(isFiniteNumber(longitude) /\ isFiniteNumber(latitude)
                 /\ isFiniteNumber(altitude))
            THEN ThrownAt("coordinateNumber", token)
            ELSE Returned(GeoCoords(longitude, latitude, altitude))

\* MIN_AREA_TOLERANCE, 1e-12, against the squared cross product of two
\* edges taken as (longitude, latitude, altitude) in degrees and metres.
\* With the edges in ticks (5e-4 degree) and millimetres the cross product
\* <<cx, cy, cz>> has the squared length 2.5e-13 (cx^2 + cy^2) +
\* 6.25e-14 cz^2, which is <= 1e-12 iff 4 (cx^2 + cy^2) + cz^2 <= 16.
MinAreaToleranceGeo == 16
GeoVector(v) == <<v.longitude, v.latitude, v.altitude>>
\* The altitude differences are divided by their common factor before
\* the products are taken, to keep the products small; the factor goes
\* back into the squares.
RECURSIVE Gcd(_, _)
Gcd(a, b) == IF b = 0 THEN a ELSE Gcd(b, a % b)
ScaledSq(factor, v, cap) ==
    IF v = 0 THEN 0
    ELSE IF factor >= cap \/ Abs(v) >= cap THEN cap * cap
    ELSE SatSq(factor * v, cap)
GeoAreaSqAtMost(a, b, c, tol) ==
    LET e1 == VSub(GeoVector(b), GeoVector(a))
        e2 == VSub(GeoVector(c), GeoVector(a))
        f  == Max2(1, Gcd(Abs(e1[3]), Abs(e2[3])))
        nx == e1[2] * (e2[3] \div f) - (e1[3] \div f) * e2[2]
        ny == (e1[3] \div f) * e2[1] - e1[1] * (e2[3] \div f)
        nz == e1[1] * e2[2] - e1[2] * e2[1]
    IN 4 * (ScaledSq(f, nx, tol) + ScaledSq(f, ny, tol)) + SatSq(nz, tol) <= tol

\* buildPlaneBasis finds a pair of vertices whose edges from vertices[0]
\* give a normal longer than the tolerance, or throws.
HasPlaneBasis(vertices) ==
    \E i \in 2..(Len(vertices) - 1) : \E j \in (i + 1)..Len(vertices) :
        ~GeoAreaSqAtMost(vertices[1], vertices[i], vertices[j], MinAreaToleranceGeo)

\* The triangle list of an index list: corner c of triangle k is
\* vertices[indices[3 * (k - 1) + c]], indices counted from 0.
TrianglesOfIndices(vertices, indices) ==
    [k \in 1..(Len(indices) \div 3) |->
        GeoTriangle(vertices[indices[3 * k - 2] + 1], vertices[indices[3 * k - 1] + 1],
                    vertices[indices[3 * k] + 1])]
\* A variant that takes the index list as it comes.
triangulateFaceUnchecked(vertices, indices) ==
    IF Len(vertices) < 3 THEN Thrown("fewVertices")
    ELSE IF Len(vertices) = 3
    THEN IF GeoAreaSqAtMost(vertices[1], vertices[2], vertices[3], MinAreaToleranceGeo)
         THEN Thrown("degenerate")
         ELSE Returned(<<GeoTriangle(vertices[1], vertices[2], vertices[3])>>)
    ELSE IF ~HasPlaneBasis(vertices) THEN Thrown("collinear")
    ELSE Returned(TrianglesOfIndices(vertices, indices))
\* A variant that cuts every ring as a fan from its first vertex.
triangulateFaceAsFan(vertices, indices) ==
    IF Len(vertices) < 3 THEN Thrown("fewVertices")
    ELSE IF Len(vertices) = 3
    THEN IF GeoAreaSqAtMost(vertices[1], vertices[2], vertices[3], MinAreaToleranceGeo)
         THEN Thrown("degenerate")
         ELSE Returned(<<GeoTriangle(vertices[1], vertices[3], vertices[2])>>)
    ELSE IF ~HasPlaneBasis(vertices) THEN Thrown("collinear")
    ELSE IF Len(indices) = 0 \/ Len(indices) % 3 # 0 THEN Thrown("earcut")
    ELSE Returned([k \in 1..(Len(indices) \div 3) |->
                     GeoTriangle(vertices[1], vertices[k + 1], vertices[k + 2])])
\* triangulateFace(vertices) with the index list Earcut.triangulate hands
\* back for the projection of the ring (it is called for a ring of more
\* than three vertices that has a plane): the triangle list, or the Error.
triangulateFaceGiven(vertices, indices) ==
    IF Len(vertices) < 3 THEN Thrown("fewVertices")
    ELSE IF Len(vertices) = 3
    THEN IF GeoAreaSqAtMost(vertices[1], vertices[2], vertices[3], MinAreaToleranceGeo)
         THEN Thrown("degenerate")
         ELSE Returned(<<GeoTriangle(vertices[1], vertices[2], vertices[3])>>)
    ELSE IF ~HasPlaneBasis(vertices) THEN Thrown("collinear")
    ELSE IF Len(indices) = 0 \/ Len(indices) % 3 # 0 THEN Thrown("earcut")
    ELSE Returned(TrianglesOfIndices(vertices, indices))
\* The fan of a ring of n vertices from vertex s, as an index list.
FanIndices(n, s) ==
    Flatten([k \in 1..(n - 2) |-> <<s % n, (s + k) % n, (s + k + 1) % n>>])
\* Earcut.triangulate of three on the rings of the texts: those of more
\* than three vertices are convex, which the library cuts into Len - 2
\* triangles, written as the fan from the first vertex.
Earcut(vertices) == FanIndices(Len(vertices), 0)
\* triangulateFace(vertices): the triangle list, or the Error.
triangulateFace(vertices) == triangulateFaceGiven(vertices, Earcut(vertices))

\* The body of the while loop of parsePolyhedralSurfaceWKT for one match of
\* the polygon expression, rawRing = match[1]: the triangles it pushes, or
\* the Error it throws.
FirstFailure(results) == CHOOSE i \in 1..Len(results) :
    ~results[i].ok /\ \A j \in 1..(i - 1) : results[j].ok
\* rawRing.split(/\)\s*,\s*\(/).length > 1
HasRingSeparator(rawRing) ==
    \E i \in 1..Len(rawRing) :
        /\ rawRing[i].kind = ")"
        /\ LET c == NextInk(rawRing, i)
           IN /\ c <= Len(rawRing)
              /\ rawRing[c].kind = ","
              /\ LET o == NextInk(rawRing, c)
                 IN o <= Len(rawRing) /\ rawRing[o].kind = "("
\* rawRing.split(",").map((s) => s.trim()).filter(Boolean)
CoordTokens(rawRing) ==
    LET commas == {i \in 1..Len(rawRing) : rawRing[i].kind = ","}
        m == Cardinality(commas)
        CommaAt(k) == IF k = 0 THEN 0 ELSE IF k > m THEN Len(rawRing) + 1 ELSE Nth(commas, k)
        pieces == [k \in 1..(m + 1) |->
                      Trim(SubSeq(rawRing, CommaAt(k - 1) + 1, CommaAt(k) - 1))]
    IN SelectSeq(pieces, NonEmpty)
\* A variant of the loop body without the test for interior rings.
ParsePolygonWithoutRingTest(rawRing) ==
    LET coordTokens == CoordTokens(rawRing)
    IN IF Len(coordTokens) < 4 THEN Thrown("tokenCount")
       ELSE LET parsed == [k \in 1..Len(coordTokens) |-> parseVertexStrict(coordTokens[k])]
            IN IF \E k \in 1..Len(parsed) : ~parsed[k].ok
               THEN parsed[FirstFailure(parsed)]
               ELSE IF ~verticesEqual(parsed[1].value, parsed[Len(parsed)].value)
               THEN Thrown("ringClosure")
               ELSE triangulateFace([k \in 1..(Len(parsed) - 1) |-> parsed[k].value])
ParsePolygon(rawRing) ==
    IF HasRingSeparator(rawRing) THEN Thrown("interiorRings")
    ELSE LET coordTokens == CoordTokens(rawRing)
         IN IF Len(coordTokens) < 4 THEN Thrown("tokenCount")
            ELSE LET parsed == [k \in 1..Len(coordTokens) |->
                                   parseVertexStrict(coordTokens[k])]
                 IN IF \E k \in 1..Len(parsed) : ~parsed[k].ok
                    THEN parsed[FirstFailure(parsed)]
                    ELSE IF ~verticesEqual(parsed[1].value, parsed[Len(parsed)].value)
                    THEN Thrown("ringClosure")
                    ELSE triangulateFace([k \in 1..(Len(parsed) - 1) |-> parsed[k].value])

RECURSIVE Concat(_, _)
Concat(lists, n) == IF n = 0 THEN <<>> ELSE Concat(lists, n - 1) \o lists[n].value

\* trimmed.match(/^SRID=\d+;([\s\S]*)$/i): the text after the prefix, or
\* the text itself.
StripSrid(trimmed) ==
    IF Len(trimmed) > 0 /\ IsWord(trimmed[1], "SRID=4326;") THEN Tail(trimmed) ELSE trimmed
\* \s*(?:ZM|Z|M)?\s* taken against the whole of the lexemes h.
MatchesQualifier(h) ==
    LET ink == SelectSeq(h, NotSpace)
    IN \/ Len(ink) = 0
       \/ Len(ink) = 1 /\ (IsWord(ink[1], "Z") \/ IsWord(ink[1], "M"))
       \/ /\ Len(ink) = 2
          /\ \E i \in 1..(Len(h) - 1) : IsWord(h[i], "Z") /\ IsWord(h[i + 1], "M")
\* /^POLYHEDRALSURFACE\s*(?:ZM|Z|M)?\s*EMPTY$/i
MatchesEmpty(wktBody) ==
    /\ Len(wktBody) >= 2
    /\ IsWord(wktBody[1], "POLYHEDRALSURFACE")
    /\ IsWord(wktBody[Len(wktBody)], "EMPTY")
    /\ MatchesQualifier(SubSeq(wktBody, 2, Len(wktBody) - 1))
\* /^(POLYHEDRALSURFACE)\s*(?:ZM|Z|M)?\s*\(\s*([\s\S]*)\s*\)$/i: the place
\* of the parenthesis that opens the content, the first of the text.
OuterOpen(wktBody) ==
    CHOOSE i \in 1..Len(wktBody) :
        wktBody[i].kind = "(" /\ \A j \in 1..(i - 1) : wktBody[j].kind # "("
MatchesOuter(wktBody) ==
    /\ Len(wktBody) >= 3
    /\ IsWord(wktBody[1], "POLYHEDRALSURFACE")
    /\ wktBody[Len(wktBody)].kind = ")"
    /\ \E i \in 2..(Len(wktBody) - 1) : wktBody[i].kind = "("
    /\ MatchesQualifier(SubSeq(wktBody, 2, OuterOpen(wktBody) - 1))
\* outerMatch[2]
OuterContent(wktBody) == SubSeq(wktBody, OuterOpen(wktBody) + 1, Len(wktBody) - 1)

\* The matches of /\(\(\s*([\s\S]*?)\s*\)\)/g from lastIndex on, each as
\* the places of what lies between its parentheses: a match starts at the
\* first "((" that has a "))" after it and ends with the first such "))".
MinOf(places) == CHOOSE p \in places : \A q \in places : p <= q
RECURSIVE PolygonMatches(_, _, _)
PolygonMatches(opens, closes, lastIndex) ==
    LET starts == {i \in opens : i >= lastIndex /\ \E j \in closes : j >= i + 2}
    IN IF starts = {} THEN <<>>
       ELSE LET i == MinOf(starts)
                j == MinOf({q \in closes : q >= i + 2})
            IN <<[from |-> i + 2, to |-> j - 1]>> \o PolygonMatches(opens, closes, j + 2)
RawRings(content) ==
    LET opens  == {i \in 1..(Len(content) - 1) :
                      content[i].kind = "(" /\ content[i + 1].kind = "("}
        closes == {i \in 1..(Len(content) - 1) :
                      content[i].kind = ")" /\ content[i + 1].kind = ")"}
        matches == PolygonMatches(opens, closes, 1)
    IN [k \in 1..Len(matches) |-> Trim(SubSeq(content, matches[k].from, matches[k].to))]

\* parsePolyhedralSurfaceWKT(wkt): the matches are taken in text order and
\* the first Error ends the parse.
parsePolyhedralSurfaceWKT(wkt) ==
    LET trimmed == Trim(wkt)
        wktBody == Trim(StripSrid(trimmed))
    IN IF Len(trimmed) = 0 THEN Thrown("emptyString")
       ELSE IF MatchesEmpty(wktBody) THEN Returned(<<>>)
       ELSE IF ~MatchesOuter(wktBody) THEN Thrown("format")
       ELSE LET rawRings == RawRings(OuterContent(wktBody))
                faces == [k \in 1..Len(rawRings) |-> ParsePolygon(rawRings[k])]
            IN IF \E k \in 1..Len(faces) : ~faces[k].ok
               THEN faces[FirstFailure(faces)]
               ELSE Returned(Concat(faces, Len(faces)))

\* isPointInGeoTriangles(point, triangles, origin), point in SUB units,
\* from triangle i on with count hits counted so far: the result and the
\* lookup the conversions leave behind.
RECURSIVE GeoScan(_, _, _, _, _, _)
GeoScan(lookup, point, triangles, origin, i, count) ==
    IF i > Len(triangles)
    THEN [lookup |-> lookup, result |-> PointResult(Odd(count), count, FALSE)]
    ELSE LET a == Converted(lookup, triangles[i].v0, origin)
             b == Converted(a.lookup, triangles[i].v1, origin)
             c == Converted(b.lookup, triangles[i].v2, origin)
         IN IF ClosestWithin(point, a.vector, b.vector, c.vector, BoundaryRatioSq)
            THEN [lookup |-> c.lookup, result |-> PointResult(TRUE, 0, TRUE)]
            ELSE GeoScan(c.lookup, point, triangles, origin, i + 1,
                         IF RayHitAhead(point, a.vector, b.vector, c.vector)
                         THEN count + 1 ELSE count)
isPointInGeoTriangles(lookup, point, triangles, origin) ==
    GeoScan(lookup, point, triangles, origin, 1, 0)

\* isCoordsInGeoTriangles(coords, triangles, origin)
isCoordsInGeoTriangles(lookup, coords, triangles, origin) ==
    LET point == Converted(lookup, coords, origin)
    IN isPointInGeoTriangles(point.lookup, point.vector, triangles, origin)
\* isCoordsInPolyhedron(coords, geometry, origin)
isCoordsInPolyhedron(lookup, coords, g, origin) ==
    isPointInPolyhedron(coordsToVector3(lookup, coords, origin), g)

\* The mesh the two reconstructions build: a non-indexed position
\* attribute of itemSize 3, the positions in SUB units, three for each
\* vertex in list order; and the lookup the conversions leave behind (a
\* key once stored keeps its scale, so each vertex converts as it does
\* from the lookup the whole list leaves).
SurfaceVertices(triangles) ==
    [i \in 1..(3 * Len(triangles)) |->
        LET tri == triangles[((i - 1) \div 3) + 1]
        IN CASE i % 3 = 1 -> tri.v0 [] i % 3 = 2 -> tri.v1 [] OTHER -> tri.v2]
ListLookup(lookup, triangles, org) ==
    LET diffs == <<>> @@ [i \in 1..(3 * Len(triangles)) |->
                             SurfaceVertices(triangles)[i].latitude - org.latitude]
        lines == {diffs[i] : i \in DOMAIN diffs}
        turn == [d \in lines |-> CHOOSE i \in DOMAIN diffs :
                                     diffs[i] = d /\ \A j \in 1..(i - 1) : diffs[j] # d]
        LineOf(k) == CHOOSE d \in lines :
                        /\ k \in DOMAIN SampleTable[org.latitude, d]
                        /\ \A e \in lines : k \in DOMAIN SampleTable[org.latitude, e]
                                               => turn[d] <= turn[e]
    IN lookup @@ [k \in UNION {DOMAIN SampleTable[org.latitude, d] : d \in lines} |->
                    ScaleAt(org.latitude,
                            LineOf(k) * SampleTable[org.latitude, LineOf(k)][k].first,
                            StepsFor(LineOf(k)))]
PositionsOf(lookup, triangles, origin) ==
    LET after == ListLookup(lookup, triangles, origin)
    IN [i \in 1..(9 * Len(triangles)) |->
           coordsToVector3(after, SurfaceVertices(triangles)[((i - 1) \div 3) + 1],
                           origin)[((i - 1) % 3) + 1]]
BuiltGeometry(lookup, triangles, origin) ==
    [lookup |-> ListLookup(lookup, triangles, origin),
     result |-> Returned(MakeGeometry(TRUE, 3, PositionsOf(lookup, triangles, origin),
                                      FALSE, <<>>))]
Raised(lookup, error) == [lookup |-> lookup, result |-> error]

\* A variant without the test for an empty list.
wktToBufferGeometryUnchecked(lookup, wkt, origin) ==
    LET triangles == parsePolyhedralSurfaceWKT(wkt)
    IN IF ~triangles.ok THEN Raised(lookup, triangles)
       ELSE BuiltGeometry(lookup, triangles.value, origin)
\* wktToBufferGeometry(wkt, {origin})
wktToBufferGeometry(lookup, wkt, origin) ==
    LET triangles == parsePolyhedralSurfaceWKT(wkt)
    IN IF ~triangles.ok THEN Raised(lookup, triangles)
       ELSE IF Len(triangles.value) = 0 THEN Raised(lookup, Thrown("noFaces"))
       ELSE BuiltGeometry(lookup, triangles.value, origin)

\* geoTrianglesToBufferGeometry(triangles, origin): a triangle with a
\* non-finite vertex ends the loop after the triangles before it were
\* converted.
geoTrianglesToBufferGeometry(lookup, triangles, origin) ==
    IF Len(triangles) = 0 THEN Raised(lookup, Thrown("emptyTriangles"))
    ELSE IF \E t \in 1..Len(triangles) : ~TriangleFinite(triangles[t])
    THEN LET bad == CHOOSE t \in 1..Len(triangles) :
                       /\ ~TriangleFinite(triangles[t])
                       /\ \A u \in 1..(t - 1) : TriangleFinite(triangles[u])
         IN Raised(ListLookup(lookup, SubSeq(triangles, 1, bad - 1), origin),
                   Thrown("nonFinite"))
    ELSE BuiltGeometry(lookup, triangles, origin)

\* --------------------------------------------------------------- inputs
Scales == {2 * k - 1 : k \in 1..MaxScale}

\* The closed meshes: each shape at each scale, indexed and non-indexed.
SoundGeometries ==
    {FormGeometry(f, PlacedVertices(sh, sc, VZero), ShapeFaces(sh)) :
        f \in Forms, sh \in Shapes, sc \in Scales}
\* The smallest closed meshes with one triangle taken away.
OpenGeometries ==
    UNION {{FormGeometry(f, PlacedVertices(sh, 1, VZero),
                         RemoveAt(ShapeFaces(sh), k)) : k \in 1..Len(ShapeFaces(sh))} :
           f \in Forms, sh \in Shapes}
\* The smallest tetrahedron with a triangle added: one with two corners
\* the same, one on three points of a line, and one face a second time;
\* and with one face taken away and two triangles without area put in.
TetraVertices == PlacedVertices("tetra", 1, VZero)
ExtraGeometries ==
    {FormGeometry(f, TetraVertices, Append(ShapeFaces("tetra"), extra)) :
        f \in Forms, extra \in {<<0, 1, 1>>, <<0, 2, 1>>}}
    \cup {FormGeometry(f, Append(TetraVertices, <<2, 0, 0>>),
                       Append(ShapeFaces("tetra"), <<0, 1, 4>>)) : f \in Forms}
    \cup {FormGeometry(f, TetraVertices,
                       <<<<0, 1, 1>>>> \o RemoveAt(ShapeFaces("tetra"), 1) \o <<<<2, 2, 3>>>>) :
            f \in Forms}
\* Malformed position data, made from the smallest tetrahedron.
TetraIndexed == IndexedGeometry(TetraVertices, ShapeFaces("tetra"))
TetraNonIndexed == NonIndexedGeometry(TetraVertices, ShapeFaces("tetra"))
MalformedGeometries ==
    {MakeGeometry(FALSE, 3, <<>>, FALSE, <<>>),
     MakeGeometry(FALSE, 3, <<>>, TRUE, DropLast(TetraIndexed.index, 1)),
     [TetraIndexed EXCEPT !.itemSize = 2],
     [TetraNonIndexed EXCEPT !.itemSize = 2],
     [TetraNonIndexed EXCEPT !.position = DropLast(@, 1)],
     [TetraNonIndexed EXCEPT !.position = DropLast(@, 3)],
     [TetraNonIndexed EXCEPT !.position = DropLast(@, 6)],
     [TetraIndexed EXCEPT !.position = DropLast(@, 1)],
     [TetraIndexed EXCEPT !.index = DropLast(@, 1)],
     [TetraIndexed EXCEPT !.itemSize = 2, !.index = DropLast(@, 2)],
     [TetraIndexed EXCEPT !.itemSize = 4, !.position = DropLast(@, 1),
                          !.index = DropLast(@, 1)]}
\* Well-formed arrays that hold no triangle or a non-finite coordinate.
OddGeometries ==
    {MakeGeometry(TRUE, 3, <<>>, FALSE, <<>>),
     [TetraIndexed EXCEPT !.index = <<>>],
     [TetraIndexed EXCEPT !.position[1] = NaN],
     [TetraNonIndexed EXCEPT !.position[1] = NaN]}
Geometries ==
    SoundGeometries \cup OpenGeometries \cup ExtraGeometries
    \cup MalformedGeometries \cup OddGeometries

\* Query points in SUB units: outside, on vertices, edges and faces, and
\* inside the meshes.
QueryPoints ==
    {<<x, y, z>> : x \in {0 - SubDiv, 0, 1}, y \in {0, 1},
                   z \in {0, 1} \cup {sc * SubDiv : sc \in Scales}}
\* Query coordinates: the places of the whole-LU points around the meshes.
QueryCoords(origin) ==
    {vector3ToCoords(<<x, y, z>>, origin) :
        x \in {0 - 1, 1}, y \in {0, 1}, z \in {0} \cup Scales}
\* options.tolerance of the validator, in micrometres: the default and 200 m.
Tolerances == {DefaultToleranceUm, 200000000}
\* options.precision of the encoder: the default and 0.
DefaultPrecision == 8
Precisions == {DefaultPrecision, 0}

\* Arguments of the conversions: origins at the two latitudes, and points
\* around an origin, on its parallel and on the parallels of the meshes.
ConversionOrigins ==
    {GeoCoords(lon, lat, alt) :
        lon \in {0 - 256}, lat \in OriginLatitudes, alt \in {0, 2 * UnitMm}}
ConversionPoints(o) ==
    {GeoCoords(o.longitude + east, o.latitude + north, o.altitude + up) :
        east \in {0, 10}, north \in Diffs, up \in {0, 2 * UnitMm}}

\* WKT texts a client hands to the parser.  The vertices lie at the origin
\* and ten ticks east, one tick south and one metre above it.
CoordToken(o, east, south, up) ==
    <<Numeral(o.longitude + east, 4), Space, Numeral(o.latitude - south, 4), Space,
      Numeral(o.altitude + up, 3)>>
WithMeasure(token, m) == token \o <<Space, m>>
TokA(o) == CoordToken(o, 0, 0, 0)
TokB(o) == CoordToken(o, 10, 0, 0)
TokC(o) == CoordToken(o, 0, 1, 0)
TokD(o) == CoordToken(o, 10, 1, 0)
TokE(o) == CoordToken(o, 0, 0, 1000)
Comma == <<Lx(","), Space>>
RingOf(tokens) == <<Lx("(")>> \o Join(tokens, Comma, Len(tokens)) \o <<Lx(")")>>
PolygonOf(rings, sep) == <<Lx("(")>> \o Join(rings, sep, Len(rings)) \o <<Lx(")")>>
FaceOf(tokens) == PolygonOf(<<RingOf(tokens)>>, Comma)
TagZ == <<Lx("POLYHEDRALSURFACE"), Space, Lx("Z")>>
SurfaceOf(tag, polygons) ==
    tag \o <<Space, Lx("(")>> \o Join(polygons, Comma, Len(polygons)) \o <<Lx(")")>>
TriangleRing(o) == <<TokA(o), TokB(o), TokC(o), TokA(o)>>
UprightRing(o) == <<TokA(o), TokB(o), TokE(o), TokA(o)>>
QuadRing(o) == <<TokA(o), TokB(o), TokD(o), TokC(o), TokA(o)>>

\* Texts of the grammar: one face, two faces, a face of four corners, and
\* the variants of tag, prefix, letter case, white space and measure.
OneFaceText(o) == SurfaceOf(TagZ, <<FaceOf(TriangleRing(o))>>)
TwoFaceText(o) == SurfaceOf(TagZ, <<FaceOf(TriangleRing(o)), FaceOf(UprightRing(o))>>)
QuadText(o) == SurfaceOf(TagZ, <<FaceOf(QuadRing(o))>>)
MeasureText(o) ==
    SurfaceOf(<<Lx("POLYHEDRALSURFACE"), Space, Lx("Z"), Lx("M")>>,
              <<FaceOf([k \in 1..4 |-> WithMeasure(TriangleRing(o)[k], Numeral(k, 0))])>>)
WordMeasureText(o) ==
    SurfaceOf(TagZ, <<FaceOf([k \in 1..4 |-> WithMeasure(TriangleRing(o)[k], Lx("hello"))])>>)
Words == {[surface |-> "POLYHEDRALSURFACE", z |-> "Z", m |-> "M", empty |-> "EMPTY",
           srid |-> "SRID=4326;"],
          [surface |-> "polyhedralsurface", z |-> "z", m |-> "m", empty |-> "empty",
           srid |-> "srid=4326;"],
          [surface |-> "PolyhedralSurface", z |-> "Z", m |-> "m", empty |-> "Empty",
           srid |-> "SRID=4326;"]}
Qualifiers(w) == {<<>>, <<Lx(w.z)>>, <<Lx(w.z), Lx(w.m)>>, <<Lx(w.m)>>}
Gaps == {<<>>, <<Space>>, <<Space, Space>>}
TaggedTexts(o) ==
    UNION {{pre \o <<Lx(w.surface)>> \o gap \o q \o gap
            \o PolygonOf(<<FaceOf(TriangleRing(o))>>, Comma) :
               pre \in {<<>>, <<Lx(w.srid), Space>>}, gap \in {<<>>, <<Space>>},
               q \in Qualifiers(w)} : w \in Words}
EmptyTexts ==
    UNION {{pad \o srid \o <<Lx(w.surface)>> \o gap \o q \o gap \o <<Lx(w.empty)>> \o pad \o pad :
               pad \in {<<>>, <<Space>>},
               srid \in {<<>>, <<Lx(w.srid)>>, <<Lx(w.srid), Space>>},
               gap \in {<<Space>>}, q \in Qualifiers(w)} : w \in Words}
    \cup {<<Lx("POLYHEDRALSURFACE")>> \o gap \o q \o gap \o <<Lx("EMPTY")>> :
            gap \in Gaps, q \in Qualifiers([z |-> "Z", m |-> "M"])}

\* Faces with a second ring: after a comma, with and without white space,
\* alone and after a sound face.
HoleFace(o, sep) == PolygonOf(<<RingOf(TriangleRing(o)), RingOf(UprightRing(o))>>, sep)
HoleSeparators == {Comma, <<Lx(",")>>, <<Space, Lx(","), Space, Space>>}
HoleTexts(o) ==
    {SurfaceOf(TagZ, <<HoleFace(o, sep)>>) : sep \in HoleSeparators}
    \cup {SurfaceOf(TagZ, <<FaceOf(TriangleRing(o)), HoleFace(o, Comma)>>)}

\* Rings that are not closed, in each one component alone.
UnclosedRings(o) ==
    {<<TokA(o), TokB(o), TokC(o), CoordToken(o, east, south, up)>> :
        <<east, south, up>> \in {<<1, 0, 0>>, <<0, 1, 0>>, <<0, 0, 1>>, <<0 - 1, 0, 0>>}}
UnclosedTexts(o) ==
    {SurfaceOf(TagZ, <<FaceOf(r)>>) : r \in UnclosedRings(o)}
    \cup {SurfaceOf(TagZ, <<FaceOf(TriangleRing(o)), FaceOf(r)>>) : r \in UnclosedRings(o)}

\* Rings of too few tokens, and tokens of too few fields or with a field
\* that is no finite number.
ShortRings(o) ==
    {<<>>, <<TokA(o)>>, <<TokA(o), TokA(o)>>, <<TokA(o), TokB(o), TokA(o)>>}
BadTokens(o) ==
    {<<Numeral(o.longitude, 4), Space, Numeral(o.latitude, 4)>>,
     <<Numeral(o.longitude, 4)>>,
     <<Numeral(o.longitude, 4), Space, Lx("hello"), Space, Numeral(0, 3)>>,
     <<Lx("Infinity"), Space, Numeral(o.latitude, 4), Space, Numeral(0, 3)>>,
     <<Numeral(o.longitude, 4), Space, Numeral(o.latitude, 4), Space, Lx("NaN")>>,
     <<Numeral(o.longitude, 4), Space, Numeral(o.latitude, 4), Space, Numeral(0, 3),
       Lx("hello")>>}
TokenTexts(o) ==
    {SurfaceOf(TagZ, <<FaceOf(r)>>) : r \in ShortRings(o)}
    \cup {SurfaceOf(TagZ, <<FaceOf(<<TokA(o), TokB(o), bad, TokA(o)>>)>>) : bad \in BadTokens(o)}
    \cup {SurfaceOf(TagZ, <<FaceOf(<<bad, TokB(o), TokC(o), bad>>)>>) : bad \in BadTokens(o)}
    \cup {SurfaceOf(TagZ, <<FaceOf(<<TokA(o), bad, TokA(o)>>)>>) : bad \in BadTokens(o)}

\* Texts outside the grammar.
MalformedTexts(o) ==
    {<<>>, <<Space, Space>>,
     <<Lx("hello")>>,
     <<Lx("POLYGON"), Space>> \o FaceOf(TriangleRing(o)),
     <<Lx("POLYHEDRALSURFACE"), Space, Lx("Z")>>,
     <<Lx("POLYHEDRALSURFACE"), Space, Lx("Z"), Space, Lx("M"), Space>>
        \o PolygonOf(<<FaceOf(TriangleRing(o))>>, Comma),
     <<Lx("POLYHEDRALSURFACE"), Space, Lx("M"), Lx("Z"), Space>>
        \o PolygonOf(<<FaceOf(TriangleRing(o))>>, Comma),
     <<Lx("POLYHEDRALSURFACE"), Space, Lx("Z"), Space, Lx("EMPTY"), Space, Lx("hello")>>,
     <<Lx("SRID=;"), Lx("POLYHEDRALSURFACE"), Space, Lx("Z"), Space, Lx("EMPTY")>>,
     SurfaceOf(TagZ, <<FaceOf(TriangleRing(o))>>) \o <<Lx("hello")>>,
     DropLast(SurfaceOf(TagZ, <<FaceOf(TriangleRing(o))>>), 1),
     SurfaceOf(TagZ, <<>>),
     SurfaceOf(TagZ, << <<Lx("hello")>> >>),
     SurfaceOf(TagZ, <<FaceOf(TriangleRing(o)) \o <<Space, Lx("hello")>>,
                       FaceOf(UprightRing(o))>>),
     SurfaceOf(TagZ, <<RingOf(TriangleRing(o))>>),
     SurfaceOf(TagZ, <<FaceOf(TriangleRing(o)), RingOf(<<TokA(o), TokB(o), TokA(o)>>)>>),
     SurfaceOf(TagZ, <<PolygonOf(<<RingOf(TriangleRing(o)) \o <<Space>> >>, Comma)>>),
     SurfaceOf(TagZ, <<FaceOf(<<TokA(o), TokB(o), <<>>, TokC(o), TokA(o)>>)>>),
     SurfaceOf(TagZ, <<PolygonOf(<<RingOf(TriangleRing(o)),
                                   RingOf(UprightRing(o)) \o <<Space>> >>, Comma)>>)}

WktTexts(o) ==
    {OneFaceText(o), TwoFaceText(o), QuadText(o), MeasureText(o), WordMeasureText(o)}
    \cup TaggedTexts(o) \cup EmptyTexts \cup HoleTexts(o) \cup UnclosedTexts(o)
    \cup TokenTexts(o) \cup MalformedTexts(o)

\* -------------------------------------------------------- state machine
\* geometry: the BufferGeometry the client holds.  origin: the scene
\* origin, fixed when the scene is set up.  mercatorScaleLookup: the
\* module's memo of Mercator scales.  call: the API call made last (its
\* name, its argument, and the lookup it found), or idle.  result: what
\* that call returned or threw.
VARIABLES geometry, origin, mercatorScaleLookup, call, result
vars == <<geometry, origin, mercatorScaleLookup, call, result>>

Idle == [op |-> "idle", arg |-> 0, before |-> <<>>]
Call(op, arg) == [op |-> op, arg |-> arg, before |-> mercatorScaleLookup]
NoResult == Thrown("none")

Init ==
    /\ geometry \in Geometries
    /\ origin \in Origins
    /\ mercatorScaleLookup = <<>>
    /\ call = Idle
    /\ result = NoResult

\* The client replaces its mesh.
LoadGeometry ==
    /\ call.op = "idle"
    /\ \E g \in Geometries \ {geometry} : geometry' = g
    /\ UNCHANGED <<origin, mercatorScaleLookup, call, result>>

\* The client is done with the result of the last call.
Done ==
    /\ call.op # "idle"
    /\ call' = Idle
    /\ result' = NoResult
    /\ UNCHANGED <<geometry, origin, mercatorScaleLookup>>

ValidatePolyhedronGeometry ==
    /\ call.op = "idle"
    /\ \E tolUm \in Tolerances :
          /\ call' = Call("validatePolyhedronGeometry", tolUm)
          /\ result' = Returned(validatePolyhedronGeometry(geometry, tolUm))
    /\ UNCHANGED <<geometry, origin, mercatorScaleLookup>>

IsPointInPolyhedron ==
    /\ call.op = "idle"
    /\ \E point \in QueryPoints :
          /\ call' = Call("isPointInPolyhedron", point)
          /\ result' = isPointInPolyhedron(point, geometry)
    /\ UNCHANGED <<geometry, origin, mercatorScaleLookup>>

IsPointOnSurface ==
    /\ call.op = "idle"
    /\ \E point \in QueryPoints :
          /\ call' = Call("isPointOnSurface", point)
          /\ result' = isPointOnSurface(point, geometry, BoundaryRatioSq)
    /\ UNCHANGED <<geometry, origin, mercatorScaleLookup>>

IsCoordsInPolyhedron ==
    /\ call.op = "idle"
    /\ \E coords \in QueryCoords(origin) :
          /\ call' = Call("isCoordsInPolyhedron", coords)
          /\ result' = isCoordsInPolyhedron(mercatorScaleLookup, coords, geometry, origin)
          /\ mercatorScaleLookup' = MercatorAfter(mercatorScaleLookup, coords, origin)
    /\ UNCHANGED <<geometry, origin>>

\* A variant that expands an indexed mesh in place before reading it.
ExtractGeoTrianglesInPlace ==
    /\ call.op = "idle"
    /\ call' = Call("extractGeoTriangles", 0)
    /\ result' = extractGeoTriangles(geometry, origin)
    /\ geometry' = IF geometry.hasIndex
                   THEN [geometry EXCEPT !.hasIndex = FALSE, !.index = <<>>]
                   ELSE geometry
    /\ UNCHANGED <<origin, mercatorScaleLookup>>
ExtractGeoTriangles ==
    /\ call.op = "idle"
    /\ call' = Call("extractGeoTriangles", 0)
    /\ result' = extractGeoTriangles(geometry, origin)
    /\ UNCHANGED <<geometry, origin, mercatorScaleLookup>>

\* The two calls on a triangle list take the list the extraction returned.
\* (out is what the call hands back, the return value or Error and the
\* lookup it leaves, taken once.)
IsPointInGeoTriangles ==
    /\ call.op = "extractGeoTriangles" /\ result.ok
    /\ \E point \in QueryPoints :
          \E out \in {isPointInGeoTriangles(mercatorScaleLookup, point, result.value, origin)} :
             /\ call' = Call("isPointInGeoTriangles", point)
             /\ result' = Returned(out.result)
             /\ mercatorScaleLookup' = out.lookup
    /\ UNCHANGED <<geometry, origin>>

IsCoordsInGeoTriangles ==
    /\ call.op = "extractGeoTriangles" /\ result.ok
    /\ \E coords \in QueryCoords(origin) :
          \E out \in {isCoordsInGeoTriangles(mercatorScaleLookup, coords, result.value, origin)} :
             /\ call' = Call("isCoordsInGeoTriangles", coords)
             /\ result' = Returned(out.result)
             /\ mercatorScaleLookup' = out.lookup
    /\ UNCHANGED <<geometry, origin>>

BufferGeometryToWKT ==
    /\ call.op = "idle"
    /\ \E precision \in Precisions :
          /\ call' = Call("bufferGeometryToWKT", precision)
          /\ result' = bufferGeometryToWKT(geometry, origin, precision)
    /\ UNCHANGED <<geometry, origin, mercatorScaleLookup>>

\* The text the encoder returned is parsed; the call record keeps the
\* precision the text was written with.
ParsePolyhedralSurfaceWKT ==
    /\ call.op = "bufferGeometryToWKT" /\ result.ok
    /\ call' = Call("parsePolyhedralSurfaceWKT", [wkt |-> result.value, precision |-> call.arg])
    /\ result' = parsePolyhedralSurfaceWKT(result.value)
    /\ UNCHANGED <<geometry, origin, mercatorScaleLookup>>

\* A text from the client's store is parsed; it was not written by the
\* encoder in this run, and the call record holds no precision for it.
ParseClientWKT ==
    /\ call.op = "idle"
    /\ \E wkt \in WktTexts(origin) :
          /\ call' = Call("parsePolyhedralSurfaceWKT", [wkt |-> wkt, precision |-> NaN])
          /\ result' = parsePolyhedralSurfaceWKT(wkt)
    /\ UNCHANGED <<geometry, origin, mercatorScaleLookup>>

WktToBufferGeometry ==
    /\ call.op = "idle"
    /\ \E wkt \in WktTexts(origin) :
          \E out \in {wktToBufferGeometry(mercatorScaleLookup, wkt, origin)} :
             /\ call' = Call("wktToBufferGeometry", wkt)
             /\ result' = out.result
             /\ mercatorScaleLookup' = out.lookup
    /\ UNCHANGED <<geometry, origin>>

\* The list is one that the extraction or the parser returned.
GeoTrianglesToBufferGeometry ==
    /\ call.op \in {"extractGeoTriangles", "parsePolyhedralSurfaceWKT"} /\ result.ok
    /\ \E out \in {geoTrianglesToBufferGeometry(mercatorScaleLookup, result.value, origin)} :
          /\ call' = Call("geoTrianglesToBufferGeometry", result.value)
          /\ result' = out.result
          /\ mercatorScaleLookup' = out.lookup
    /\ UNCHANGED <<geometry, origin>>

\* The corners of the rings handed to the triangulator: the origin, ten
\* and five ticks east of it, one tick south, and ten east and one south.
FaceCorners(o) ==
    {GeoCoords(o.longitude + east, o.latitude - south, o.altitude) :
        east \in {0, 5, 10}, south \in {0, 1}} \ {GeoCoords(o.longitude + 5, o.latitude - 1, o.altitude)}
\* Rings of one to four corners, and the ring of five around the square
\* with the middle of its northern side.
FaceRings(o) ==
    UNION {[1..n -> FaceCorners(o)] : n \in 1..4}
    \cup {<<GeoCoords(o.longitude, o.latitude, o.altitude),
            GeoCoords(o.longitude + 5, o.latitude, o.altitude),
            GeoCoords(o.longitude + 10, o.latitude, o.altitude),
            GeoCoords(o.longitude + 10, o.latitude - 1, o.altitude),
            GeoCoords(o.longitude, o.latitude - 1, o.altitude)>>}
\* What the library can hand back for a ring of n vertices: nothing, a
\* list that is no list of triangles, one triangle, and the fans from the
\* first and from the second vertex.
EarcutReturns(n) == {<<>>, <<0, 1>>, <<0, 1, 2>>, FanIndices(n, 0), FanIndices(n, 1)}
\* The step of the parser on the vertices of one ring, the closing vertex
\* taken off.
TriangulateFace ==
    /\ call.op = "idle"
    /\ \E vertices \in FaceRings(origin) :
       \E indices \in (IF Len(vertices) > 3 /\ HasPlaneBasis(vertices)
                        THEN EarcutReturns(Len(vertices)) ELSE {<<>>}) :
          /\ call' = Call("triangulateFace", [vertices |-> vertices, indices |-> indices])
          /\ result' = triangulateFaceGiven(vertices, indices)
    /\ UNCHANGED <<geometry, origin, mercatorScaleLookup>>

\* The conversions called by the client itself, with an origin of its own
\* choice.
CoordsToVector3 ==
    /\ call.op = "idle"
    /\ \E o \in ConversionOrigins : \E point \in ConversionPoints(o) :
          /\ call' = Call("coordsToVector3", [point |-> point, origin |-> o])
          /\ result' = Returned(coordsToVector3(mercatorScaleLookup, point, o))
          /\ mercatorScaleLookup' = MercatorAfter(mercatorScaleLookup, point, o)
    /\ UNCHANGED <<geometry, origin>>

AverageMercatorScale ==
    /\ call.op = "idle"
    /\ \E originLat \in OriginLatitudes : \E diff \in Diffs :
          \E out \in {averageMercatorScale(mercatorScaleLookup, originLat, diff)} :
             /\ call' = Call("averageMercatorScale", [originLat |-> originLat, diff |-> diff])
             /\ result' = Returned([total |-> out.total, samples |-> out.samples])
             /\ mercatorScaleLookup' = out.lookup
    /\ UNCHANGED <<geometry, origin>>

\* The vector coordsToVector3 returned is converted back with the same
\* origin; the call record keeps the point it came from.
Vector3ToCoords ==
    /\ call.op = "coordsToVector3" /\ result.ok
    /\ call' = Call("vector3ToCoords", [position |-> result.value, origin |-> call.arg.origin,
                                         point |-> call.arg.point])
    /\ result' = Returned(vector3ToCoordsSub(result.value, call.arg.origin))
    /\ UNCHANGED <<geometry, origin, mercatorScaleLookup>>

Next ==
    \/ LoadGeometry
    \/ Done
    \/ ValidatePolyhedronGeometry
    \/ IsPointInPolyhedron
    \/ IsPointOnSurface
    \/ IsCoordsInPolyhedron
    \/ ExtractGeoTriangles
    \/ IsPointInGeoTriangles
    \/ IsCoordsInGeoTriangles
    \/ BufferGeometryToWKT
    \/ ParsePolyhedralSurfaceWKT
    \/ ParseClientWKT
    \/ WktToBufferGeometry
    \/ GeoTrianglesToBufferGeometry
    \/ CoordsToVector3
    \/ AverageMercatorScale
    \/ Vector3ToCoords
    \/ TriangulateFace

Spec == Init /\ [][Next]_vars

\* The validator, the codec and the engine on local points are functions of
\* the mesh and their arguments alone, and never touch the lookup: each is
\* also run by itself.
ValidatorNext == LoadGeometry \/ Done \/ ValidatePolyhedronGeometry
ValidatorSpec == Init /\ [][ValidatorNext]_vars
CodecNext ==
    LoadGeometry \/ Done \/ ExtractGeoTriangles \/ BufferGeometryToWKT
    \/ ParsePolyhedralSurfaceWKT
CodecSpec == Init /\ [][CodecNext]_vars
EngineNext == LoadGeometry \/ Done \/ IsPointInPolyhedron \/ IsPointOnSurface
EngineSpec == Init /\ [][EngineNext]_vars
\* The two classifications of a local point, on a mesh and on the triangle
\* list extracted from it; the second reads and fills the lookup.
ContainmentNext ==
    LoadGeometry \/ Done \/ IsPointInPolyhedron \/ ExtractGeoTriangles
    \/ IsPointInGeoTriangles
ContainmentSpec == Init /\ [][ContainmentNext]_vars
\* The queries on a mesh and on the triangle list extracted from it, by
\* local point and by coordinates.
QueryNext ==
    LoadGeometry \/ Done \/ IsPointInPolyhedron \/ IsPointOnSurface \/ IsCoordsInPolyhedron
    \/ ExtractGeoTriangles \/ IsPointInGeoTriangles \/ IsCoordsInGeoTriangles
QuerySpec == Init /\ [][QueryNext]_vars
\* The conversions by themselves, on one mesh.
ConversionInit == Init /\ geometry = TetraIndexed /\ origin = PoleOrigin
ConversionNext == Done \/ CoordsToVector3 \/ AverageMercatorScale \/ Vector3ToCoords
ConversionSpec == ConversionInit /\ [][ConversionNext]_vars
\* The four operations that read a mesh, on the indexed meshes.
FormsInit == Init /\ geometry.hasPosition /\ geometry.hasIndex
FormsNext ==
    Done \/ ValidatePolyhedronGeometry \/ IsPointInPolyhedron \/ IsPointOnSurface
    \/ ExtractGeoTriangles
FormsSpec == FormsInit /\ [][FormsNext]_vars
\* The parser on the client's texts.  It reads no mesh: the client holds
\* the smallest tetrahedron throughout.
ParserInit == Init /\ geometry = TetraIndexed
ParserNext == Done \/ ParseClientWKT
ParserSpec == ParserInit /\ [][ParserNext]_vars
\* The parser and its triangulator.
TriangulatorNext == Done \/ ParseClientWKT \/ TriangulateFace
TriangulatorSpec == ParserInit /\ [][TriangulatorNext]_vars
\* The operations that write a text or build a mesh, and those that hand
\* them their triangle lists, on the smallest tetrahedron, a mesh without
\* position data and the meshes without a triangle or with a non-finite
\* coordinate.
BuilderGeometries ==
    OddGeometries \cup {TetraIndexed, TetraNonIndexed, MakeGeometry(FALSE, 3, <<>>, FALSE, <<>>)}
BuilderInit == Init /\ geometry \in BuilderGeometries
BuilderNext ==
    Done \/ ExtractGeoTriangles \/ BufferGeometryToWKT \/ ParseClientWKT
    \/ WktToBufferGeometry \/ GeoTrianglesToBufferGeometry
BuilderSpec == BuilderInit /\ [][BuilderNext]_vars
\* The operations that take a mesh, a triangle list, a point or an origin
\* from the caller, on the meshes of BuilderGeometries.
FrameNext ==
    Done \/ ValidatePolyhedronGeometry \/ ExtractGeoTriangles \/ BufferGeometryToWKT
    \/ IsPointInPolyhedron \/ IsPointOnSurface \/ IsPointInGeoTriangles
    \/ GeoTrianglesToBufferGeometry
FrameSpec == BuilderInit /\ [][FrameNext]_vars

\* ---------------------------------------------- claims on the validator
Validated == call.op = "validatePolyhedronGeometry"
ErrorKinds(errors) == {errors[i].kind : i \in 1..Len(errors)}
ErrorsOfKind(errors, kind) == {i \in 1..Len(errors) : errors[i].kind = kind}

\* The structural checks that fail on a mesh, stated on the mesh: without
\* a position attribute nothing else is looked at.
FailedChecks(g) ==
    IF ~g.hasPosition THEN {"position"}
    ELSE {k \in {"itemSize", "positionLength", "nonIndexedLength", "indexLength"} :
            \/ k = "itemSize" /\ g.itemSize # 3
            \/ k = "positionLength" /\ Len(g.position) % 3 # 0
            \/ k = "nonIndexedLength" /\ ~g.hasIndex /\ Len(g.position) % 9 # 0
            \/ k = "indexLength" /\ g.hasIndex /\ Len(g.index) % 3 # 0}
StructurallySound(g) == FailedChecks(g) = {}

\* The triangles of a sound mesh as triples of logical vertices: positions
\* rounded to the tolerance grid.
Triangles(g) == 0..(TriangleTotal(g) - 1)
KeysOf(g, t, tolUm) ==
    LET tri == TriangleCorners(g, t)
    IN <<vertexKey(tri[1], tolUm), vertexKey(tri[2], tolUm), vertexKey(tri[3], tolUm)>>
HasArea(g, t) ==
    LET tri == TriangleCorners(g, t)
    IN /\ VFinite(tri[1]) /\ VFinite(tri[2]) /\ VFinite(tri[3])
       /\ VCross(VSub(tri[2], tri[1]), VSub(tri[3], tri[1])) # VZero
\* The unordered pairs of logical vertices that are edges of the triangles
\* ts, and the number of times the triangles ts use a pair.
EdgesOf(keys) == {{keys[1], keys[2]}, {keys[2], keys[3]}, {keys[3], keys[1]}}
EdgeUses(keys, e) ==
    (IF {keys[1], keys[2]} = e THEN 1 ELSE 0) + (IF {keys[2], keys[3]} = e THEN 1 ELSE 0)
    + (IF {keys[3], keys[1]} = e THEN 1 ELSE 0)
RECURSIVE SumUses(_, _, _, _)
SumUses(g, tolUm, ts, e) ==
    IF ts = {} THEN 0
    ELSE LET t == CHOOSE q \in ts : TRUE
         IN EdgeUses(KeysOf(g, t, tolUm), e) + SumUses(g, tolUm, ts \ {t}, e)
EdgePairs(g, tolUm, ts) == UNION {EdgesOf(KeysOf(g, t, tolUm)) : t \in ts}
PairsNotUsedTwice(g, tolUm, ts) ==
    Cardinality({e \in EdgePairs(g, tolUm, ts) : SumUses(g, tolUm, ts, e) # 2})

\* A closed mesh: every triangle has area and three different logical
\* vertices, and every edge is an edge of exactly two triangles.
Closed(g, tolUm) ==
    /\ StructurallySound(g)
    /\ TriangleTotal(g) > 0
    /\ \A t \in Triangles(g) : HasArea(g, t) /\ Cardinality(EdgesOf(KeysOf(g, t, tolUm))) = 3
    /\ PairsNotUsedTwice(g, tolUm, Triangles(g)) = 0
\* The mesh g without its triangle t.
WithoutTriangle(g, t) ==
    IF g.hasIndex
    THEN [g EXCEPT !.index = SubSeq(@, 1, 3 * t) \o SubSeq(@, 3 * t + 4, Len(@))]
    ELSE [g EXCEPT !.position = SubSeq(@, 1, 9 * t) \o SubSeq(@, 9 * t + 10, Len(@))]

\* The closed meshes among the sound ones, for each tolerance.
ClosedMeshes == [tolUm \in Tolerances |-> {g \in SoundGeometries : Closed(g, tolUm)}]

\* C7: a closed mesh validates with isValid and no non-manifold edge; the
\* same mesh without any one of its triangles validates with non-manifold
\* edges, not isValid, and the non-manifold error.
C7_Watertight ==
    Validated =>
        /\ Closed(geometry, call.arg) =>
              /\ result.value.isValid
              /\ result.value.nonManifoldEdgeCount = 0
        /\ \A base \in ClosedMeshes[call.arg] :
              (\E t \in Triangles(base) : geometry = WithoutTriangle(base, t)) =>
                  /\ result.value.nonManifoldEdgeCount > 0
                  /\ ~result.value.isValid
                  /\ "nonManifold" \in ErrorKinds(result.value.errors)
C7_Witness ==
    /\ Validated
    /\ ~geometry.hasIndex
    /\ \E base \in ClosedMeshes[call.arg] :
          \E t \in Triangles(base) : geometry = WithoutTriangle(base, t)
    /\ result.value.nonManifoldEdgeCount = 3

\* The aggregate error of the result: none for the count 0, else exactly
\* one, carrying the count.
AggregateErrorFor(r) ==
    IF r.nonManifoldEdgeCount = 0
    THEN ErrorsOfKind(r.errors, "nonManifold") = {}
    ELSE /\ Cardinality(ErrorsOfKind(r.errors, "nonManifold")) = 1
         /\ \A i \in ErrorsOfKind(r.errors, "nonManifold") :
               r.errors[i].count = r.nonManifoldEdgeCount

\* C8 as stated: for a structurally sound mesh nonManifoldEdgeCount is the
\* number of unordered pairs of logical vertices that the edges of all the
\* triangles use other than twice, and the aggregate error goes with it.
C8_AllTriangles ==
    (Validated /\ StructurallySound(geometry)) =>
        /\ result.value.nonManifoldEdgeCount =
              PairsNotUsedTwice(geometry, call.arg, Triangles(geometry))
        /\ AggregateErrorFor(result.value)

\* C8 amended: the pairs are counted over the edges of the triangles that
\* are not degenerate (squared cross product above 1e-12); a degenerate
\* triangle adds no use.
Counted(g) ==
    {t \in Triangles(g) :
        ~AreaSqAtMost(TriangleCorners(g, t)[1], TriangleCorners(g, t)[2],
                      TriangleCorners(g, t)[3], MinAreaTolLocal)}
C8_NonDegenerateTriangles ==
    (Validated /\ StructurallySound(geometry)) =>
        /\ result.value.nonManifoldEdgeCount =
              PairsNotUsedTwice(geometry, call.arg, Counted(geometry))
        /\ AggregateErrorFor(result.value)
C8_Witness ==
    /\ Validated /\ StructurallySound(geometry)
    /\ Counted(geometry) # Triangles(geometry)
    /\ result.value.nonManifoldEdgeCount = 0
    /\ PairsNotUsedTwice(geometry, call.arg, Triangles(geometry)) = 2

\* C9: on every return of the validator isValid is true exactly when the
\* errors list is empty.
C9_ValidIffNoErrors ==
    Validated => (result.value.isValid <=> Len(result.value.errors) = 0)
C9_Witness ==
    /\ Validated
    /\ ~result.value.isValid
    /\ result.value.triangleCount > 0
    /\ ErrorKinds(result.value.errors) = {"degenerate"}

\* C10: when a structural check fails the validator returns isValid false,
\* triangleCount 0, nonManifoldEdgeCount 0 and one error for each failed
\* check and no other; a missing position attribute is reported alone.
C10_StructuralEarlyReturn ==
    (Validated /\ ~StructurallySound(geometry)) =>
        /\ ~result.value.isValid
        /\ result.value.triangleCount = 0
        /\ result.value.nonManifoldEdgeCount = 0
        /\ ErrorKinds(result.value.errors) = FailedChecks(geometry)
        /\ Len(result.value.errors) = Cardinality(FailedChecks(geometry))
C10_Witness ==
    /\ Validated
    /\ Cardinality(FailedChecks(geometry)) = 3
    /\ Len(result.value.errors) = 3

\* ------------------------------------- claims on the containment engine
\* The point lies on the closed triangle a b c (on the SUB grid a point
\* within 1e-3 m of a triangle lies on it): in its plane and on the inner
\* side of its three edges, or, for a triangle without area, on one of its
\* edges.
OnSegment(p, a, b) ==
    IF a = b THEN p = a
    ELSE /\ VCross(VSub(b, a), VSub(p, a)) = VZero
         /\ VDot(VSub(p, a), VSub(b, a)) >= 0
         /\ VDot(VSub(p, b), VSub(a, b)) >= 0
OnTriangle(p, a, b, c) ==
    /\ VFinite(a) /\ VFinite(b) /\ VFinite(c)
    /\ LET n == VCross(VSub(b, a), VSub(c, a))
       IN IF n = VZero
          THEN OnSegment(p, a, b) \/ OnSegment(p, b, c) \/ OnSegment(p, c, a)
          ELSE /\ VDot(n, VSub(p, a)) = 0
               /\ VDot(VCross(VSub(b, a), VSub(p, a)), n) >= 0
               /\ VDot(VCross(VSub(c, b), VSub(p, b)), n) >= 0
               /\ VDot(VCross(VSub(a, c), VSub(p, c)), n) >= 0

\* The ray from o along RAY_DIRECTION meets the closed triangle a b c at
\* a point strictly ahead of o: the ray is not parallel to the plane, it
\* passes the three edges on the same side, and the plane lies ahead.
Turn(o, p, q) == VDot(RayDirection, VCross(VSub(p, o), VSub(q, o)))
HitAhead(o, a, b, c) ==
    /\ VFinite(a) /\ VFinite(b) /\ VFinite(c)
    /\ LET n == VCross(VSub(b, a), VSub(c, a))
       IN /\ VDot(RayDirection, n) # 0
          /\ \/ Turn(o, a, b) >= 0 /\ Turn(o, b, c) >= 0 /\ Turn(o, c, a) >= 0
             \/ Turn(o, a, b) <= 0 /\ Turn(o, b, c) <= 0 /\ Turn(o, c, a) <= 0
          /\ Sgn(VDot(VSub(a, o), n)) = Sgn(VDot(RayDirection, n))

\* The triangles of the surface a call works on, in SUB units: those of the
\* mesh, or those of the triangle list, each vertex converted by
\* coordsToVector3.  The call converts the vertices one after the other,
\* each from the lookup the one before left; a key once stored keeps its
\* scale, so every vertex converts as it does from the lookup the whole
\* list leaves: the lookup the call found, and for each further key the
\* scale its sampling line gives it, the line that comes first in the list
\* going first.
MeshSurface(g) == [t \in 1..LoopTriangles(g) |-> SubCorners(g, t - 1)]
GeoSurface(lookup, triangles, org) ==
    LET after == ListLookup(lookup, triangles, org)
    IN [t \in 1..Len(triangles) |->
           <<coordsToVector3(after, triangles[t].v0, org),
             coordsToVector3(after, triangles[t].v1, org),
             coordsToVector3(after, triangles[t].v2, org)>>]
ExtractedTriangles == extractGeoTriangles(geometry, origin).value
\* The query point and the surface of the call made last.
PointQueried == call.op \in {"isPointInPolyhedron", "isPointInGeoTriangles"} /\ result.ok
QuerySurface ==
    IF call.op = "isPointInPolyhedron" THEN MeshSurface(geometry)
    ELSE GeoSurface(call.before, ExtractedTriangles, origin)
OnSurface(p, surface) ==
    \E t \in DOMAIN surface : \E tri \in {surface[t]} : OnTriangle(p, tri[1], tri[2], tri[3])
HitsAhead(p, surface) ==
    Cardinality({t \in DOMAIN surface :
                    \E tri \in {surface[t]} : HitAhead(p, tri[1], tri[2], tri[3])})

\* C3: a query point within the boundary tolerance of a triangle of the
\* surface gets exactly {inside: true, onBoundary: true, intersectionCount:
\* 0} from isPointInPolyhedron and from isPointInGeoTriangles.
C3_BoundaryConvention ==
    PointQueried =>
        (result.value = PointResult(TRUE, 0, TRUE) \/ ~OnSurface(call.arg, QuerySurface))
C3_Witness ==
    /\ PointQueried /\ call.op = "isPointInGeoTriangles"
    /\ OnSurface(call.arg, QuerySurface)
    /\ HitsAhead(call.arg, QuerySurface) > 0
    /\ result.value.onBoundary

\* C4: every result has inside = (onBoundary or intersectionCount odd);
\* for a point not within the boundary tolerance of any triangle
\* onBoundary is false, intersectionCount is the number of triangles the
\* ray hits strictly ahead of the point, and inside says whether it is odd.
C4_ResultInvariants ==
    PointQueried =>
        LET surface == QuerySurface
            hits == HitsAhead(call.arg, surface)
        IN /\ result.value.inside =
                 (result.value.onBoundary \/ Odd(result.value.intersectionCount))
           /\ ~OnSurface(call.arg, surface) =>
                 /\ ~result.value.onBoundary
                 /\ result.value.intersectionCount = hits
                 /\ result.value.inside = Odd(hits)
C4_Witness ==
    /\ PointQueried /\ call.op = "isPointInGeoTriangles"
    /\ ~OnSurface(call.arg, QuerySurface)
    /\ result.value.intersectionCount = 1
    /\ result.value.inside

\* The local-space result a geo call is compared with: the mesh classified
\* at the point, or at coordsToVector3 of the coordinates taken from the
\* lookup the call found.
LocalPoint ==
    IF call.op = "isCoordsInGeoTriangles"
    THEN coordsToVector3(call.before, call.arg, origin)
    ELSE call.arg
MeshResult == isPointInPolyhedron(LocalPoint, geometry)
GeoQueried == call.op \in {"isPointInGeoTriangles", "isCoordsInGeoTriangles"}

\* C5: on the triangle list extracted from a mesh isPointInGeoTriangles
\* gives the same inside as isPointInPolyhedron gives on the mesh, for
\* every mesh, origin and point; isCoordsInGeoTriangles gives the same
\* inside as isCoordsInPolyhedron; and each wrapper on coordinates returns
\* what the function on points returns at coordsToVector3(coords, origin).
C5_ContainmentParity ==
    /\ GeoQueried => (MeshResult.ok /\ result.value.inside = MeshResult.value.inside)
    /\ call.op = "isCoordsInGeoTriangles" =>
          result.value = isPointInGeoTriangles(MercatorAfter(call.before, call.arg, origin),
                                               LocalPoint, ExtractedTriangles, origin).result
    /\ call.op = "isCoordsInPolyhedron" =>
          result = isPointInPolyhedron(coordsToVector3(call.before, call.arg, origin), geometry)

\* The position data the engine is to refuse: no position attribute, a
\* component count other than 3, a non-indexed position array whose length
\* is not a multiple of 9, an index whose length is not a multiple of 3.
MalformedPosition(g) ==
    \/ ~g.hasPosition
    \/ g.itemSize # 3
    \/ ~g.hasIndex /\ Len(g.position) % 9 # 0
    \/ g.hasIndex /\ Len(g.index) % 3 # 0
MeshQueried == call.op \in {"isPointInPolyhedron", "isPointOnSurface", "isCoordsInPolyhedron"}

\* C6: isPointInPolyhedron, isPointOnSurface and isCoordsInPolyhedron throw
\* on every mesh with malformed or missing position data, and return
\* nothing for it.
C6_MalformedRaises == (MeshQueried /\ MalformedPosition(geometry)) => ~result.ok

\* ---------------------------------------------------- claims on the codec
Parsed == call.op = "parsePolyhedralSurfaceWKT"
ParsedEncoded == Parsed /\ call.arg.precision # NaN
\* 1e-6 degree is less than a tick, so two places on the grid within it
\* are the same place; 1e-2 m is 10 mm.
VertexNear(a, b) ==
    /\ a.longitude = b.longitude
    /\ a.latitude = b.latitude
    /\ Abs(a.altitude - b.altitude) <= 10
TriangleNear(s, t) ==
    VertexNear(s.v0, t.v0) /\ VertexNear(s.v1, t.v1) /\ VertexNear(s.v2, t.v2)

\* C1: for a watertight mesh and any origin, the text written with
\* precision 8 parses, into as many triangles as extractGeoTriangles gives,
\* in the same order, each vertex within 1e-6 degree and 1e-2 m of the
\* extracted one.
C1_Roundtrip ==
    (/\ ParsedEncoded /\ call.arg.precision = DefaultPrecision
     /\ geometry \in ClosedMeshes[DefaultToleranceUm]) =>
        /\ result.ok
        /\ Len(result.value) = Len(ExtractedTriangles)
        /\ \A t \in 1..Len(result.value) : TriangleNear(result.value[t], ExtractedTriangles[t])

\* C2: whatever text bufferGeometryToWKT returns, for any mesh, origin and
\* precision, parsePolyhedralSurfaceWKT reads without an error, as one
\* triangle for each ring written.
C2_EncoderOutputParses ==
    ParsedEncoded => (result.ok /\ Len(result.value) = Len(ExtractedTriangles))

\* ------------------------------------ further claims on the validator
\* Triangle t of g has a squared cross product of at most 1e-12: on whole
\* LUs, its corners are finite and its cross product is zero.
ZeroArea(g, t) ==
    LET tri == TriangleCorners(g, t)
    IN /\ VFinite(tri[1]) /\ VFinite(tri[2]) /\ VFinite(tri[3])
       /\ VCross(VSub(tri[2], tri[1]), VSub(tri[3], tri[1])) = VZero
ZeroAreaTriangles(g) == {t \in Triangles(g) : ZeroArea(g, t)}

\* C11: for a structurally sound mesh the errors list holds one degenerate
\* error for each triangle of squared area <= 1e-12 and nothing else but
\* the non-manifold error, which comes last; the other triangles are
\* counted, and the edge check is made on them and reported, however many
\* degenerate triangles there are.
C11_AccumulatesErrors ==
    (Validated /\ StructurallySound(geometry)) =>
        LET r == result.value
            degenerate == ErrorsOfKind(r.errors, "degenerate")
        IN /\ Cardinality(degenerate) = Cardinality(ZeroAreaTriangles(geometry))
           /\ ErrorKinds(r.errors) \subseteq {"degenerate", "nonManifold"}
           /\ \A i \in degenerate : i <= Cardinality(degenerate)
           /\ r.triangleCount = TriangleTotal(geometry) - Cardinality(degenerate)
           /\ r.nonManifoldEdgeCount =
                 PairsNotUsedTwice(geometry, call.arg,
                                   Triangles(geometry) \ ZeroAreaTriangles(geometry))
           /\ AggregateErrorFor(r)
C11_Witness ==
    /\ Validated /\ StructurallySound(geometry)
    /\ Cardinality(ZeroAreaTriangles(geometry)) = 2
    /\ ZeroArea(geometry, 0)
    /\ Len(result.value.errors) = 3
    /\ result.value.errors[3].kind = "nonManifold"
    /\ result.value.nonManifoldEdgeCount = 3

\* C12: the validator never returns isValid for a mesh one of whose
\* triangles has a corner with a non-finite coordinate.
C12_FiniteCoordinates ==
    (Validated /\ result.value.isValid) =>
        \A t \in Triangles(geometry) :
            \A k \in 1..3 : VFinite(TriangleCorners(geometry, t)[k])
\* ------------------------------------------- claims on the extraction
Extracted == call.op = "extractGeoTriangles"
\* C20: extractGeoTriangles throws, and returns no list, for a mesh without
\* position data, with a component count other than 3, with a non-indexed
\* position array whose length is no multiple of 9, or with an index whose
\* length is no multiple of 3.
C20_ExtractionRaises == (Extracted /\ MalformedPosition(geometry)) => ~result.ok
\* A non-indexed array of a length that is a multiple of 3 and not of 9:
\* the length test lets it through and the last, incomplete triangle fails
\* the assertion of toGeoVertex.
C20_Witness ==
    /\ Extracted
    /\ geometry.hasPosition /\ geometry.itemSize = 3 /\ ~geometry.hasIndex
    /\ Len(geometry.position) % 3 = 0 /\ Len(geometry.position) % 9 # 0
    /\ result = Thrown("nonFinite")
\* ------------------------------------------------ claims on the parser
\* The ring strings of a text, as the parser's scan finds them: what lies
\* between each "((" and the first "))" after it; none when the text has
\* not the outer form.
RingsOf(wkt) ==
    LET wktBody == Trim(StripSrid(Trim(wkt)))
    IN IF MatchesOuter(wktBody) THEN RawRings(OuterContent(wktBody)) ELSE <<>>
\* The ring string holds a second parenthesised ring: a ring closes, and
\* after a comma another ring opens.
HasSecondRing(ring) ==
    \E i \in 1..Len(ring) : \E j \in (i + 1)..Len(ring) :
        /\ ring[i].kind = ")" /\ ring[j].kind = "("
        /\ SelectSeq(SubSeq(ring, i + 1, j - 1), NotSpace) = <<Lx(",")>>
\* The rings before ring k of the list pass all the checks.
SoundBefore(rings, k) == \A j \in 1..(k - 1) : ParsePolygon(rings[j]).ok

\* C13: a text one of whose ring strings holds a second ring is never
\* parsed to a triangle list; the parse throws, and when the rings before
\* it are sound the error is the one on interior rings.
C13_InteriorRingsRejected ==
    Parsed =>
        \A k \in 1..Len(RingsOf(call.arg.wkt)) :
            HasSecondRing(RingsOf(call.arg.wkt)[k]) =>
                /\ ~result.ok
                /\ SoundBefore(RingsOf(call.arg.wkt), k) => result = Thrown("interiorRings")
C13_Witness ==
    /\ Parsed
    /\ call.arg.wkt = SurfaceOf(TagZ, <<FaceOf(TriangleRing(origin)), HoleFace(origin, Comma)>>)
    /\ result = Thrown("interiorRings")
\* The vertices parsed from the coordinate tokens of a ring string.
RingVertices(ring) ==
    [k \in 1..Len(CoordTokens(ring)) |-> parseVertexStrict(CoordTokens(ring)[k])]
\* A ring that reaches the closure test: one ring, four tokens or more,
\* each of them a vertex.
WellFormedRing(ring) ==
    /\ ~HasSecondRing(ring)
    /\ Len(RingVertices(ring)) >= 4
    /\ \A k \in 1..Len(RingVertices(ring)) : RingVertices(ring)[k].ok
\* On the grid of ticks and millimetres, within 1e-9 is equality.
ClosedRing(ring) ==
    LET first == RingVertices(ring)[1].value
        last  == RingVertices(ring)[Len(RingVertices(ring))].value
    IN /\ first.longitude = last.longitude
       /\ first.latitude = last.latitude
       /\ first.altitude = last.altitude
\* The number of triangles of the rings before ring k, when a ring of n
\* tokens gives n - 3 triangles.
TrianglesBefore(rings, k) ==
    Cardinality(UNION {{<<j, i>> : i \in 1..(Len(RingVertices(rings[j])) - 3)} :
                          j \in 1..(k - 1)})

\* C14: a ring that reaches the closure test with first and last vertex
\* different in longitude, latitude or altitude makes the parse throw, with
\* the ring-closure error when the rings before it are sound; a returned
\* list comes from closed rings only and has n - 3 triangles for a ring of
\* n tokens, the triangle of a ring of four tokens being its first three
\* vertices: the closing vertex is no corner of its own.
C14_RingClosure ==
    Parsed =>
        LET rings == RingsOf(call.arg.wkt)
        IN /\ \A k \in 1..Len(rings) :
                  (WellFormedRing(rings[k]) /\ ~ClosedRing(rings[k])) =>
                      /\ ~result.ok
                      /\ SoundBefore(rings, k) => result = Thrown("ringClosure")
           /\ result.ok =>
                  /\ \A k \in 1..Len(rings) : WellFormedRing(rings[k]) /\ ClosedRing(rings[k])
                  /\ Len(result.value) = TrianglesBefore(rings, Len(rings) + 1)
                  /\ \A k \in 1..Len(rings) :
                         Len(RingVertices(rings[k])) = 4 =>
                             result.value[TrianglesBefore(rings, k) + 1]
                                 = GeoTriangle(RingVertices(rings[k])[1].value,
                                               RingVertices(rings[k])[2].value,
                                               RingVertices(rings[k])[3].value)
C14_Witness ==
    /\ Parsed
    /\ call.arg.wkt = SurfaceOf(TagZ, <<FaceOf(TriangleRing(origin)),
                          FaceOf(<<TokA(origin), TokB(origin), TokC(origin),
                                   CoordToken(origin, 0, 0, 1)>>)>>)
    /\ result = Thrown("ringClosure")
\* The fields of a coordinate token: its runs of lexemes between white
\* space, each as the places of its first and last lexeme.
FieldsOf(token) ==
    LET firsts == {i \in 1..Len(token) : ~IsSpace(token[i]) /\ (i = 1 \/ IsSpace(token[i - 1]))}
        lasts  == {i \in 1..Len(token) :
                      ~IsSpace(token[i]) /\ (i = Len(token) \/ IsSpace(token[i + 1]))}
    IN [k \in 1..Cardinality(firsts) |-> [from |-> Nth(firsts, k), to |-> Nth(lasts, k)]]
\* A field that is a finite number: one numeral.
FiniteField(token, field) ==
    field.from = field.to /\ token[field.from].kind = "num" /\ token[field.from].value # NaN
\* What is wrong with a token: nothing, too few fields, or one of the
\* first three fields no finite number.
TokenFault(token) ==
    IF Len(FieldsOf(token)) < 3 THEN "coordinateFields"
    ELSE IF \E k \in 1..3 : ~FiniteField(token, FieldsOf(token)[k]) THEN "coordinateNumber"
    ELSE "none"
\* The vertex of the first three fields of a token.
VertexOfFields(token) ==
    GeoCoords(token[FieldsOf(token)[1].from].value, token[FieldsOf(token)[2].from].value,
              token[FieldsOf(token)[3].from].value)

PolygonListInGrammar(list) ==
    LET n == Len(list)
        At(i) == IF i < 1 \/ i > n THEN "end" ELSE list[i].kind
    IN /\ n >= 5
       /\ At(1) = "(" /\ At(n) = ")"
       /\ \A i \in 1..n :
            CASE At(i) = "(" ->
                    \/ At(i + 1) = "(" /\ At(i - 1) \in {"end", ","} /\ At(i + 2) = "num"
                    \/ At(i + 1) = "num" /\ At(i - 1) = "("
              [] At(i) = ")" ->
                    \/ At(i + 1) = ")" /\ At(i - 1) = "num"
                    \/ At(i - 1) = ")" /\ At(i + 1) \in {"end", ","}
              [] At(i) = "," ->
                    \/ At(i - 1) = "num" /\ At(i + 1) = "num"
                    \/ At(i - 1) = ")" /\ At(i + 1) = "("
              [] At(i) = "num" ->
                    \* a vertex is a run of three or four numerals
                    /\ At(i - 1) = "num" \/ At(i + 1) = "num"
                    /\ At(i - 1) # "num" =>
                           /\ At(i + 1) = "num" /\ At(i + 2) = "num"
                           /\ At(i + 3) # "num" \/ At(i + 4) # "num"
              [] OTHER -> FALSE
InGrammar(wkt) ==
    LET ink  == SelectSeq(wkt, NotSpace)
        body == IF Len(ink) > 0 /\ IsWord(ink[1], "SRID=4326;") THEN Tail(ink) ELSE ink
        q    == IF Len(body) >= 3 /\ IsWord(body[2], "Z") /\ IsWord(body[3], "M") THEN 2
                ELSE IF Len(body) >= 2 /\ (IsWord(body[2], "Z") \/ IsWord(body[2], "M")) THEN 1
                ELSE 0
        rest == SubSeq(body, q + 2, Len(body))
    IN /\ Len(body) >= 2
       /\ IsWord(body[1], "POLYHEDRALSURFACE")
       /\ \/ Len(rest) = 1 /\ IsWord(rest[1], "EMPTY")
          \/ /\ Len(rest) >= 2
             /\ rest[1].kind = "(" /\ rest[Len(rest)].kind = ")"
             /\ PolygonListInGrammar(SubSeq(rest, 2, Len(rest) - 1))

\* C16: the parser returns a triangle list, empty or not, only for a text
\* of the surface grammar; every other text makes it throw.
C16_MalformedRejected ==
    Parsed => (result.ok => InGrammar(call.arg.wkt))
\* The EMPTY literal: the surface word, one of the qualifiers Z, ZM, M or
\* none, and the word EMPTY, in any letter case, after an SRID prefix or
\* none, with white space around and between the words.
Spellings(word) == {w[word] : w \in Words}
EmptyLiteral(wkt) ==
    LET ink  == SelectSeq(wkt, NotSpace)
        body == IF Len(ink) > 0 /\ ink[1].kind \in Spellings("srid") THEN Tail(ink) ELSE ink
        Is(l, word) == l.kind \in Spellings(word)
    IN /\ Len(body) \in 2..4
       /\ Is(body[1], "surface")
       /\ Is(body[Len(body)], "empty")
       /\ Len(body) = 3 => Is(body[2], "z") \/ Is(body[2], "m")
       /\ Len(body) = 4 =>
              /\ Is(body[2], "z") /\ Is(body[3], "m")
              /\ \E i \in 1..(Len(wkt) - 1) : Is(wkt[i], "z") /\ Is(wkt[i + 1], "m")

\* C17: the parse of an EMPTY literal returns the empty triangle list.
C17_EmptyLiteral ==
    (Parsed /\ EmptyLiteral(call.arg.wkt)) => result = Returned(<<>>)
C17_Witness ==
    /\ Parsed
    /\ call.arg.wkt = <<Space, Lx("srid=4326;"), Space, Lx("polyhedralsurface"), Space,
                        Lx("z"), Lx("m"), Space, Lx("empty"), Space, Space>>
    /\ EmptyLiteral(call.arg.wkt)
    /\ result = Returned(<<>>)
\* ------------------------------------- claims on encoding and rebuilding
\* A mesh whose arrays are well formed and hold no triangle.
NoTriangleMesh(g) ==
    /\ g.hasPosition /\ g.itemSize = 3
    /\ IF g.hasIndex THEN Len(g.index) = 0 ELSE Len(g.position) = 0

\* C18: the encoder throws for a mesh without a triangle, the rebuilding
\* from text throws for a text that parses to no triangle, the EMPTY
\* literal among them, and the rebuilding from a list throws for the empty
\* list; none of them returns a text or a mesh.
C18_ZeroTrianglesRejected ==
    /\ (call.op = "bufferGeometryToWKT" /\ NoTriangleMesh(geometry))
           => result = Thrown("noFaces")
    /\ (call.op = "wktToBufferGeometry" /\ parsePolyhedralSurfaceWKT(call.arg) = Returned(<<>>))
           => result = Thrown("noFaces")
    /\ (call.op = "wktToBufferGeometry" /\ EmptyLiteral(call.arg)) => ~result.ok
    /\ (call.op = "geoTrianglesToBufferGeometry" /\ call.arg = <<>>)
           => result = Thrown("emptyTriangles")
C18_Witness ==
    /\ call.op = "wktToBufferGeometry"
    /\ call.arg = <<Lx("POLYHEDRALSURFACE"), Space, Lx("Z"), Space, Lx("EMPTY")>>
    /\ result = Thrown("noFaces")
\* The triangles of a well-formed mesh, counted on its arrays.
MeshTriangleCount(g) == IF g.hasIndex THEN Len(g.index) \div 3 ELSE Len(g.position) \div 9
\* The lexeme is a numeral of d decimals that reads as v rounded to them,
\* the last place being quantum ticks or millimetres.
PrintsAs(l, v, d, quantum) ==
    /\ l.kind = "num" /\ l.decimals = d
    /\ l.value % quantum = 0
    /\ 2 * Abs(l.value - v) <= quantum
\* The five lexemes from place s on are "longitude latitude altitude" of
\* the vertex.
TupleAt(text, s, vertex, d) ==
    /\ PrintsAs(text[s], vertex.longitude, d, DegreeQuantum(d))
    /\ text[s + 1] = Space
    /\ PrintsAs(text[s + 2], vertex.latitude, d, DegreeQuantum(d))
    /\ text[s + 3] = Space
    /\ PrintsAs(text[s + 4], vertex.altitude, d, MetreQuantum(d))
\* A ring takes 30 lexemes: two parentheses, four tuples of five with
\* three separators of two, two parentheses; with the separator after it, 32.
RingAt(text, base, tri, d) ==
    /\ text[base + 1] = Lx("(") /\ text[base + 2] = Lx("(")
    /\ TupleAt(text, base + 3, tri.v0, d)
    /\ SubSeq(text, base + 8, base + 9) = <<Lx(","), Space>>
    /\ TupleAt(text, base + 10, tri.v1, d)
    /\ SubSeq(text, base + 15, base + 16) = <<Lx(","), Space>>
    /\ TupleAt(text, base + 17, tri.v2, d)
    /\ SubSeq(text, base + 22, base + 23) = <<Lx(","), Space>>
    /\ SubSeq(text, base + 24, base + 28) = SubSeq(text, base + 3, base + 7)
    /\ text[base + 29] = Lx(")") /\ text[base + 30] = Lx(")")

\* C19: the text the encoder returns is "POLYHEDRALSURFACE Z (" rings ")"
\* with one ring per triangle of the mesh, in the order of the triangles
\* and separated by ", "; a ring is "((" v0, v1, v2, v0 "))", each vertex as
\* "longitude latitude altitude" with precision decimals, the fourth tuple
\* being the text of the first.
C19_EncodedText ==
    (call.op = "bufferGeometryToWKT" /\ result.ok) =>
        LET text == result.value
            n    == MeshTriangleCount(geometry)
        IN /\ n >= 1 /\ n = Len(ExtractedTriangles)
           /\ Len(text) = 32 * n + 4
           /\ SubSeq(text, 1, 5) = <<Lx("POLYHEDRALSURFACE"), Space, Lx("Z"), Space, Lx("(")>>
           /\ text[Len(text)] = Lx(")")
           /\ \A t \in 1..n :
                  /\ RingAt(text, 5 + 32 * (t - 1), ExtractedTriangles[t], call.arg)
                  /\ t < n => SubSeq(text, 32 * t + 4, 32 * t + 5) = <<Lx(","), Space>>
\* A tetrahedron written without decimals: four rings, the numerals
\* rounded to whole degrees and metres.
C19_Witness ==
    /\ call.op = "bufferGeometryToWKT" /\ result.ok
    /\ call.arg = 0
    /\ MeshTriangleCount(geometry) = 4
    /\ Len(result.value) = 132
    /\ result.value[8].decimals = 0
    /\ result.value[8].value # ExtractedTriangles[1].v0.longitude
\* ------------------------------------------- claims on the conversions
ConvertedToVector == call.op = "coordsToVector3"

\* C21: coordsToVector3(p, p) is the zero vector, for every point p and
\* every state of the lookup the call finds.
C21_SelfIsZero ==
    (ConvertedToVector /\ call.arg.point = call.arg.origin) => result = Returned(<<0, 0, 0>>)
\* The call finds the key of the origin's latitude filled by an earlier
\* call from the parallel one tick south of it.
C21_Witness ==
    /\ ConvertedToVector
    /\ call.arg.point = call.arg.origin
    /\ call.arg.origin.latitude = PoleLatitude
    /\ KeyOf(PoleLatitude, 0, 1) \in DOMAIN call.before
    /\ call.before[KeyOf(PoleLatitude, 0, 1)] = ScaleAt(PoleLatitude - 1, 0, 1)
    /\ result = Returned(<<0, 0, 0>>)
\* C22: the vector coordsToVector3 returns is the one it returns in a
\* process that made no call before, whatever calls came before.
C22_PureFunction ==
    ConvertedToVector =>
        result = Returned(coordsToVector3(<<>>, call.arg.point, call.arg.origin))
\* C23: in every step a key present in the lookup stays present with the
\* scale it has; the steps that convert no coordinates leave the lookup
\* as it is.
C23_AppendOnly ==
    [][ /\ \A k \in DOMAIN mercatorScaleLookup :
              /\ k \in DOMAIN mercatorScaleLookup'
              /\ mercatorScaleLookup'[k] = mercatorScaleLookup[k]
        /\ call'.op \in {"idle", "vector3ToCoords"} =>
              mercatorScaleLookup' = mercatorScaleLookup ]_vars
\* A conversion that met a key filled from another latitude than the one
\* it samples first, and left the scale stored there.
C23_Witness ==
    /\ call.op \in {"coordsToVector3", "averageMercatorScale"}
    /\ \E k \in DOMAIN call.before :
          /\ k \in DOMAIN mercatorScaleLookup
          /\ mercatorScaleLookup[k] = call.before[k]
          /\ \E o \in OriginLatitudes : \E diff \in Diffs :
                /\ IF call.op = "averageMercatorScale"
                   THEN call.arg.originLat = o /\ call.arg.diff = diff
                   ELSE /\ call.arg.origin.latitude = o
                        /\ call.arg.point.latitude = o + diff
                /\ k \in DOMAIN LookupAfter(<<>>, o, diff)
                /\ LookupAfter(<<>>, o, diff)[k] # call.before[k]
\* ------------------------------------------- claims on the caller's inputs

CoreOperations ==
    {"validatePolyhedronGeometry", "extractGeoTriangles", "bufferGeometryToWKT",
     "isPointInPolyhedron", "isPointOnSurface", "isPointInGeoTriangles",
     "geoTrianglesToBufferGeometry"}

\* C24: a core operation, whether it returns or raises, leaves the caller's
\* mesh (position and index buffers) and origin as they were, and the
\* triangle list handed to geoTrianglesToBufferGeometry is the list the
\* earlier call returned, element for element.
C24_InputsUnchanged ==
    [][ call'.op \in CoreOperations =>
          /\ geometry' = geometry
          /\ origin' = origin
          /\ call'.op = "geoTrianglesToBufferGeometry" => call'.arg = result.value
      ]_vars
\* An indexed mesh was extracted and the caller still holds it indexed.
C24_Witness ==
    /\ call.op = "extractGeoTriangles"
    /\ result.ok
    /\ geometry = TetraIndexed
    /\ Len(result.value) = 4

\* ------------------------------------------------ claims on the round trip

RoundTrip == call.op = "vector3ToCoords" /\ result.ok
\* o.latitude + (p.latitude - o.latitude) * averageScale / scale, in fifths
\* of a tick, both scales read through the lookup the call found.
LatitudeBack(lookup, o, diff) ==
    LET avg == averageMercatorScale(lookup, o.latitude, diff)
    IN o.latitude * SubDiv
       + RoundHalfAway(diff * SubDiv * avg.total,
                       avg.samples * avg.lookup[KeyOf(o.latitude, 0, 1)])
\* The distance of the latitude that comes back from the latitude sent.
Deviation(lookup, o, diff) ==
    Abs(LatitudeBack(lookup, o, diff) - (o.latitude + diff) * SubDiv)
\* The longitude and altitude come back to within the half sub-unit the
\* vector was rounded by, and the latitude is the one of the formula.
RoundTripFormula ==
    RoundTrip =>
      LET p == call.arg.point
          o == call.arg.origin
          back == result.value
      IN /\ 200 * Abs(back.longitude - p.longitude * SubDiv) <= Sec100(o.latitude) + 100
         /\ 2 * Abs(back.altitude - p.altitude * SubDiv) <= UnitMm
         /\ back.latitude = LatitudeBack(call.before, o, p.latitude - o.latitude)
         /\ p.latitude = o.latitude => back.latitude = p.latitude * SubDiv

IndexedMesh(g) ==
    /\ g.hasPosition /\ g.hasIndex /\ g.itemSize = 3
    /\ Len(g.position) % 3 = 0 /\ Len(g.index) % 3 = 0
\* The same triangles without the index: the three coordinates of every
\* index entry, in the order of the index.
SoupOf(g) ==
    MakeGeometry(TRUE, 3,
                 [i \in 1..(3 * Len(g.index)) |->
                     PosAt(g, 3 * g.index[((i - 1) \div 3) + 1] + ((i - 1) % 3))],
                 FALSE, <<>>)
FormOperations ==
    {"validatePolyhedronGeometry", "isPointInPolyhedron", "isPointOnSurface",
     "extractGeoTriangles"}
\* What the operation of the call record gives on mesh g.
OperationOn(g) ==
    CASE call.op = "validatePolyhedronGeometry" ->
             Returned(validatePolyhedronGeometry(g, call.arg))
      [] call.op = "isPointInPolyhedron" -> isPointInPolyhedron(call.arg, g)
      [] call.op = "isPointOnSurface" -> isPointOnSurface(call.arg, g, BoundaryRatioSq)
      [] call.op = "extractGeoTriangles" -> extractGeoTriangles(g, origin)

\* C26: the validator, the two point tests and the extraction give on an
\* indexed mesh what they give on the same triangles without the index.
C26_FormsAgree ==
    (call.op \in FormOperations /\ IndexedMesh(geometry))
       => result = OperationOn(SoupOf(geometry))
\* The validator counted the four triangles of a closed indexed mesh whose
\* position buffer is not the one of its triangle soup.
C26_Witness ==
    /\ call.op = "validatePolyhedronGeometry"
    /\ IndexedMesh(geometry)
    /\ Len(geometry.position) < Len(SoupOf(geometry).position)
    /\ result.value.isValid
    /\ result.value.triangleCount = 4

\* ------------------------------------------- claims on the triangulator

Triangulated == call.op = "triangulateFace"
\* The vertices of a ring are pairwise different.
UniqueVertices(vertices) ==
    \A i \in 1..Len(vertices) : \A j \in 1..Len(vertices) :
        vertices[i] = vertices[j] => i = j
\* The parallelogram on the edges from a to b and from a to c, squared,
\* is at most 1e-12: twice the area in the plane of the map is below
\* four square ticks (the corners of the rings lie at one altitude).
FlatAreaAtMost(a, b, c) ==
    Abs((b.longitude - a.longitude) * (c.latitude - a.latitude)
        - (b.latitude - a.latitude) * (c.longitude - a.longitude)) <= 4
\* No two vertices span a plane with the first.
AllCollinear(vertices) ==
    \A i \in 2..Len(vertices) : \A j \in 2..Len(vertices) :
        FlatAreaAtMost(vertices[1], vertices[i], vertices[j])
\* An index list that cuts a ring of n vertices into n - 2 triangles.
CutsRing(indices, n) ==
    /\ Len(indices) = 3 * (n - 2)
    /\ \A i \in 1..Len(indices) : indices[i] \in 0..(n - 1)
CornersOf(triangles) ==
    UNION {{triangles[k].v0, triangles[k].v1, triangles[k].v2} : k \in 1..Len(triangles)}

C28_TriangulatorFails ==
    Triangulated =>
       LET vertices == call.arg.vertices
           indices == call.arg.indices
           n == Len(vertices)
       IN /\ n < 3 => result = Thrown("fewVertices")
          /\ (n = 3 /\ FlatAreaAtMost(vertices[1], vertices[2], vertices[3]))
                => result = Thrown("degenerate")
          /\ (n > 3 /\ AllCollinear(vertices)) => result = Thrown("collinear")
          /\ (n > 3 /\ ~AllCollinear(vertices) /\ (Len(indices) = 0 \/ Len(indices) % 3 # 0))
                => result = Thrown("earcut")
\* The library handed back two indices for a square.
C28_Witness ==
    /\ Triangulated
    /\ Len(call.arg.vertices) = 4
    /\ UniqueVertices(call.arg.vertices)
    /\ call.arg.indices = <<0, 1>>
    /\ result = Thrown("earcut")

\* -------------------------------------- claims on the validator's counts

\* The sum of the counts of the edge-usage map.
RECURSIVE TotalUses(_, _)
TotalUses(ec, keys) ==
    IF keys = {} THEN 0
    ELSE LET k == CHOOSE q \in keys : TRUE IN ec[k] + TotalUses(ec, keys \ {k})
\* edgeCounts as the loop over the triangles leaves it.
EdgeCountsOf(g, tolUm) == ProcessTriangles(g, TriangleTotal(g), tolUm, PassStart).edges

\* C29: for a structurally sound mesh the validator reports one degenerate
\* error for each triangle of squared area at most 1e-12, triangleCount is
\* the number of the other triangles, and the counts of the edge-usage
\* map add up to 3 * triangleCount.
C29_DegenerateSkipped ==
    (Validated /\ StructurallySound(geometry)) =>
        /\ result.value.triangleCount = Cardinality(Counted(geometry))
        /\ Cardinality(ErrorsOfKind(result.value.errors, "degenerate"))
              = Cardinality(Triangles(geometry) \ Counted(geometry))
        /\ TotalUses(EdgeCountsOf(geometry, call.arg), DOMAIN EdgeCountsOf(geometry, call.arg))
              = 3 * result.value.triangleCount
\* A mesh with two triangles without area among its five was validated.
C29_Witness ==
    /\ Validated /\ StructurallySound(geometry)
    /\ Cardinality(Triangles(geometry) \ Counted(geometry)) = 2
    /\ result.value.triangleCount = 3
    /\ Cardinality(DOMAIN EdgeCountsOf(geometry, call.arg)) > 0

\* --------------------------------------- claims on the order of the parse

\* What the checks make of one ring string, taken in the order interior
\* ring, token count, token syntax, closure, triangulation.
RingOutcome(ring) ==
    LET tokens == CoordTokens(ring)
        faulty == {i \in 1..Len(tokens) : TokenFault(tokens[i]) # "none"}
    IN IF HasSecondRing(ring) THEN Thrown("interiorRings")
       ELSE IF Len(tokens) < 4 THEN Thrown("tokenCount")
       ELSE IF faulty # {}
       THEN ThrownAt(TokenFault(tokens[Nth(faulty, 1)]), tokens[Nth(faulty, 1)])
       ELSE IF ~ClosedRing(ring) THEN Thrown("ringClosure")
       ELSE triangulateFace([k \in 1..(Len(tokens) - 1) |-> VertexOfFields(tokens[k])])
\* The parse ends with the error of the first ring string that fails, and
\* returns the triangles of all of them, in their order, when none does.
FirstFailureAborts ==
    (Parsed /\ Len(RingsOf(call.arg.wkt)) > 0) =>
        LET rings == RingsOf(call.arg.wkt)
            outcomes == [k \in 1..Len(rings) |-> RingOutcome(rings[k])]
            failing == {k \in 1..Len(rings) : ~outcomes[k].ok}
        IN IF failing # {}
           THEN result = outcomes[Nth(failing, 1)]
           ELSE result = Returned(Concat(outcomes, Len(rings)))
\* The entries of the polygon list of a text: what the commas outside every
\* parenthesis of the list divide it into.
ListEntries(wkt) ==
    LET ink == SelectSeq(wkt, NotSpace)
        opens == {i \in 1..Len(ink) : ink[i].kind = "("}
        closes == {i \in 1..Len(ink) : ink[i].kind = ")"}
        list == IF opens = {} \/ closes = {} THEN <<>>
                ELSE SubSeq(ink, Nth(opens, 1) + 1, Nth(closes, Cardinality(closes)) - 1)
        Depth(i) == Cardinality({j \in 1..i : list[j].kind = "("})
                    - Cardinality({j \in 1..i : list[j].kind = ")"})
    IN IF Len(list) = 0 THEN 0
       ELSE 1 + Cardinality({i \in 1..Len(list) : list[i].kind = "," /\ Depth(i) = 0})

\* C30: the rings of a text are taken in text order and the first that
\* fails a check (interior ring, token count, token syntax, closure,
\* triangulation) ends the parse with its error; a returned list holds the
\* triangles of every entry of the polygon list: no entry is passed over.
C30_AllOrNothing ==
    /\ FirstFailureAborts
    /\ (Parsed /\ result.ok /\ ~EmptyLiteral(call.arg.wkt)) =>
          ListEntries(call.arg.wkt) = Len(RingsOf(call.arg.wkt))

====
